---- MODULE Spec2Model ----
(***************************************************************************)
(* AquariumManager: the persistent store (app/database.py) and the         *)
(* simulation engine (app/simulation.py) as one state machine.             *)
(*                                                                         *)
(* Float fields (temperatures, cleanliness, hunger, health) are held in    *)
(* fixed point, in units of 1/Scale; every product with a decimal literal  *)
(* is rounded to that grid, as binary64 rounds to its own.  Wall-clock     *)
(* instants are whole minutes since the start of the run; the store keeps  *)
(* them in the text form isoformat() produces and fromisoformat() parses.  *)
(***************************************************************************)
EXTENDS Integers, Sequences, FiniteSets, TLC

\* ------------------------------------------------------------------ bounds
MaxCalls == 2            \* how many engine calls a run makes
MaxElapses == 1          \* how many times the wall clock advances in a run
MaxAquariumId == 2       \* rows the aquariums table ever receives
MaxFishId == 4           \* rows the fish table ever receives
MaxTaskId == 4           \* rows the tasks table ever receives
StoreCalls == 3           \* calls made on a Database used on its own
TickCalls == 3            \* ticks of the timer in a row

\* ------------------------------------------------------- program constants
Scale == 1000            \* fixed-point resolution of a float
None == 0                \* Optional[int] id that is not set
CleanRate == 180         \* 0.18 per minute
HungerRate == 450        \* 0.45 per minute
HungerStress == 70000    \* 70.0
HungerPenalty == 20      \* 0.02
TempTolerance == 2500    \* 2.5
TempPenalty == 500       \* 0.5
CleanStress == 40000     \* 40.0
CleanPenalty == 10       \* 0.01
MinHealth == 10000       \* 10.0
Full == 100000           \* 100.0
FeedHunger == 45000      \* 45.0
FeedHealth == 8000       \* 8.0
NewCleanliness == 90000  \* 90.0
NewHunger == 35000       \* 35.0
NewHealth == 95000       \* 95.0
SeedTemperature == 25000 \* 25.0
SeedCleanliness == 85000 \* 85.0
SeedHunger == 45000      \* 45.0
SeedHealth == 82000      \* 82.0
SeedCleanedAgo == 2880   \* timedelta(days=2)

\* ------------------------------------------------------------------ inputs
ElapsedSet == {-10, 60, 700}         \* minutes the wall clock moves by (a step back: clock skew)
TargetSet == {16000, 32000}          \* target temperatures a caller passes
NameSet == {"Sala Verde"}
FishNameSet == {"Nemo"}
SpeciesSet == {"Betta"}
KindSet == {"iluminacao"}            \* kinds passed to add_task
OwnKindSet == {"teste"}              \* kinds of Task objects a caller builds itself
IntervalSet == {30}
AgedMinutes == 260                   \* age of the database file a run may find
AquariumIds == {1, 2}                \* aquarium ids a caller passes: the seeded one, another
FishIdSet == {1, 4}                   \* fish ids a caller passes: a seeded fish, a created one
TickElapsedSet == {10, 20, 60, 700}  \* minutes between two ticks of the timer
StoreElapsedSet == {0, 60}           \* minutes between two calls on a Database

\* Aquarium objects passed to Database.upsert_aquarium: without an id, with
\* the id of the seeded row, with another id
AquariumArgs ==
    {[id |-> i, name |-> n, target_temperature |-> t, current_temperature |-> 20000,
      cleanliness |-> 50000, last_cleaned_at |-> 30] :
        i \in {None, 1, 2}, n \in NameSet, t \in TargetSet}

\* a Fish object whose name, species, aquarium and creation time are those of
\* no stored row
FishArg(id, hunger) ==
    [id |-> id, aquarium_id |-> 2, name |-> "Nemo", species |-> "Betta",
     hunger |-> hunger, health |-> 20000, created_at |-> 5]

\* Fish objects passed to Database.insert_fish: for the seeded aquarium, for
\* another one; fractional hunger, a creation time before the epoch
FishInserts ==
    {[FishArg(None, 12345) EXCEPT !.aquarium_id = a, !.created_at = -61] :
        a \in AquariumIds}

\* Task objects passed to Database.upsert_task: without id for the seeded
\* aquarium and for another one, and with the id of a seeded task but another
\* kind, aquarium and interval
TaskArgs ==
    {[id |-> None, aquarium_id |-> a, kind |-> k, interval_minutes |-> n,
      last_run_at |-> 1505] : a \in AquariumIds, k \in OwnKindSet, n \in IntervalSet}
    \cup {[id |-> 1, aquarium_id |-> 2, kind |-> k, interval_minutes |-> n,
           last_run_at |-> 1505] : k \in OwnKindSet, n \in IntervalSet}

\* the deltas passed to Database.refresh_aquarium_environment: cleanliness
\* below 0, above 100, within
DeltaSet == {<<-1500, -60000>>, <<2500, 70000>>, <<500, 10000>>}

\* lists passed to Database.update_fish: one fish, the same fish twice, a
\* fish without id first, an id no row has, two fish
FishLists ==
    {<<FishArg(1, 10000)>>,
     <<FishArg(1, 10000), FishArg(1, 30000)>>,
     <<FishArg(None, 30000), FishArg(2, 10000)>>,
     <<FishArg(9, 10000)>>,
     <<FishArg(1, 30000), FishArg(3, 10000)>>}

VARIABLES
    database,     \* Database: the three tables and sqlite_sequence
    aquariums,    \* SimulationEngine._aquariums
    fish,         \* SimulationEngine._fish
    tasks,        \* SimulationEngine._tasks
    last_tick,    \* SimulationEngine._last_tick
    now,          \* datetime.now(timezone.utc)
    elapses,      \* how many times the clock has advanced
    calls,        \* how many engine calls have been made
    phase,        \* position in main(): "start", "seeded", "running"
    last          \* the call that produced this state

vars == <<database, aquariums, fish, tasks, last_tick, now, elapses, calls, phase, last>>

\* ----------------------------------------------------------------- helpers
Max(a, b) == IF a >= b THEN a ELSE b
Min(a, b) == IF a <= b THEN a ELSE b
Abs(a) == IF a >= 0 THEN a ELSE -a

\* n / s rounded to the nearest integer
Round(n, s) == IF n >= 0 THEN (2 * n + s) \div (2 * s) ELSE -((2 * (-n) + s) \div (2 * s))

\* the product of two fixed-point numbers, rounded to the grid
Mul(x, y) == Round(x * y, Scale)

\* isoformat(timespec="hours"): the minutes are not written
isoformat_hours(t) == <<t \div 1440, (t % 1440) \div 60, 0>>

\* datetime.isoformat(): the text form of an instant (day, hour, minute)
isoformat(t) == <<t \div 1440, (t % 1440) \div 60, t % 60>>

\* datetime.fromisoformat()
fromisoformat(s) == s[1] * 1440 + s[2] * 60 + s[3]

\* math.exp(-minutes / 18.0) for minutes = 10, 20, ..., 130, rounded to the
\* grid; from 140 minutes on it rounds to 0 (in binary64, 1.0 - exp(-m / 18.0)
\* is 1.0 from about 661 minutes on)
ExpTable == <<574, 329, 189, 108, 62, 36, 20, 12, 7, 4, 2, 1, 1>>

exp18(minutes) ==
    IF minutes \div 10 > Len(ExpTable) THEN 0 ELSE ExpTable[minutes \div 10]

\* ------------------------------------------------------------ the database
EmptyDatabase ==
    [aquariums |-> {}, fish |-> {}, tasks |-> {},
     seq |-> [aquariums |-> 0, fish |-> 0, tasks |-> 0]]

RECURSIVE OrderById(_)
OrderById(rows) ==
    IF rows = {} THEN <<>>
    ELSE LET r == CHOOSE x \in rows : \A y \in rows : x.id <= y.id
         IN <<r>> \o OrderById(rows \ {r})

AquariumRow(a) ==
    [id |-> a.id, name |-> a.name,
     target_temperature |-> a.target_temperature,
     current_temperature |-> a.current_temperature,
     cleanliness |-> a.cleanliness,
     last_cleaned_at |-> isoformat(a.last_cleaned_at)]

AquariumOf(r) ==
    [id |-> r.id, name |-> r.name,
     target_temperature |-> r.target_temperature,
     current_temperature |-> r.current_temperature,
     cleanliness |-> r.cleanliness,
     last_cleaned_at |-> fromisoformat(r.last_cleaned_at)]

FishRow(f) ==
    [id |-> f.id, aquarium_id |-> f.aquarium_id, name |-> f.name,
     species |-> f.species, hunger |-> f.hunger, health |-> f.health,
     created_at |-> isoformat(f.created_at)]

FishOf(r) ==
    [id |-> r.id, aquarium_id |-> r.aquarium_id, name |-> r.name,
     species |-> r.species, hunger |-> r.hunger, health |-> r.health,
     created_at |-> fromisoformat(r.created_at)]

TaskRow(t) ==
    [id |-> t.id, aquarium_id |-> t.aquarium_id, kind |-> t.kind,
     interval_minutes |-> t.interval_minutes,
     last_run_at |-> isoformat(t.last_run_at)]

TaskOf(r) ==
    [id |-> r.id, aquarium_id |-> r.aquarium_id, kind |-> r.kind,
     interval_minutes |-> r.interval_minutes,
     last_run_at |-> fromisoformat(r.last_run_at)]

MapSeq(F(_), s) == [i \in DOMAIN s |-> F(s[i])]

\* Database.aquariums
db_aquariums(db) == MapSeq(AquariumOf, OrderById(db.aquariums))

\* Database.fish_for_aquarium
fish_for_aquarium(db, aquarium_id) ==
    MapSeq(FishOf, OrderById({r \in db.fish : r.aquarium_id = aquarium_id}))

\* Database.tasks_for_aquarium
tasks_for_aquarium(db, aquarium_id) ==
    MapSeq(TaskOf, OrderById({r \in db.tasks : r.aquarium_id = aquarium_id}))

\* ForeignKeyOk with PRAGMA foreign_keys left off
ForeignKeyOff(db, aquarium_id) == TRUE

\* the foreign key of fish and tasks (PRAGMA foreign_keys = ON)
ForeignKeyOk(db, aquarium_id) == \E r \in db.aquariums : r.id = aquarium_id

\* insert_aquarium on a table without AUTOINCREMENT: the id is the largest
\* id present plus one
insert_aquarium_max_rowid(db, a) ==
    LET ids == {r.id : r \in db.aquariums}
        id == IF ids = {} THEN 1 ELSE (CHOOSE x \in ids : \A y \in ids : y <= x) + 1
    IN [db EXCEPT !.aquariums = @ \cup {AquariumRow([a EXCEPT !.id = id])},
                  !.seq.aquariums = id]

\* Database.upsert_aquarium, the INSERT branch: the database afterwards
insert_aquarium(db, a) ==
    LET id == db.seq.aquariums + 1
    IN [db EXCEPT !.aquariums = @ \cup {AquariumRow([a EXCEPT !.id = id])},
                  !.seq.aquariums = id]

\* update_aquarium as INSERT OR REPLACE: a row is written when none matches
update_aquarium_or_insert(db, a) ==
    [db EXCEPT !.aquariums = {r \in @ : r.id # a.id} \cup {AquariumRow(a)}]

\* Database.upsert_aquarium, the UPDATE branch
update_aquarium(db, a) ==
    [db EXCEPT !.aquariums =
        {IF r.id = a.id THEN AquariumRow(a) ELSE r : r \in @}]

\* Database.upsert_aquarium: the database afterwards and the object returned
upsert_aquarium(db, a) ==
    IF a.id = None
    THEN LET d == insert_aquarium(db, a)
         IN [database |-> d, ret |-> [a EXCEPT !.id = d.seq.aquariums]]
    ELSE [database |-> update_aquarium(db, a), ret |-> a]

\* Database.insert_fish (the caller has checked the foreign key)
insert_fish(db, f) ==
    LET id == db.seq.fish + 1
    IN [db EXCEPT !.fish = @ \cup {FishRow([f EXCEPT !.id = id])},
                  !.seq.fish = id]

\* update_one_fish writing every column of the row
update_one_fish_all_columns(rows, f) ==
    {IF r.id = f.id THEN FishRow(f) ELSE r : r \in rows}

\* one UPDATE fish SET hunger = ?, health = ? WHERE id = ?
update_one_fish(rows, f) ==
    {IF r.id = f.id THEN [r EXCEPT !.hunger = f.hunger, !.health = f.health]
     ELSE r : r \in rows}

RECURSIVE update_fish_rows(_, _, _)
update_fish_rows(rows, fishes, i) ==
    IF i > Len(fishes) THEN rows
    ELSE update_fish_rows(
            IF fishes[i].id # None THEN update_one_fish(rows, fishes[i]) ELSE rows,
            fishes, i + 1)

\* Database.update_fish
update_fish(db, fishes) == [db EXCEPT !.fish = update_fish_rows(@, fishes, 1)]

\* Database.delete_fish
delete_fish(db, fish_id) == [db EXCEPT !.fish = {r \in @ : r.id # fish_id}]

\* db_delete_aquarium with the foreign keys not enforced: no cascade
db_delete_aquarium_no_cascade(db, aquarium_id) ==
    [db EXCEPT !.aquariums = {r \in @ : r.id # aquarium_id}]

\* Database.delete_aquarium, with ON DELETE CASCADE on fish and tasks
db_delete_aquarium(db, aquarium_id) ==
    [db EXCEPT !.aquariums = {r \in @ : r.id # aquarium_id},
               !.fish = {r \in @ : r.aquarium_id # aquarium_id},
               !.tasks = {r \in @ : r.aquarium_id # aquarium_id}]

\* Database.upsert_task, the INSERT branch (foreign key checked by the caller)
insert_task(db, t) ==
    LET id == db.seq.tasks + 1
    IN [db EXCEPT !.tasks = @ \cup {TaskRow([t EXCEPT !.id = id])},
                  !.seq.tasks = id]

\* Database.upsert_task, the UPDATE branch
update_task(db, t) ==
    [db EXCEPT !.tasks =
        {IF r.id = t.id
         THEN [r EXCEPT !.interval_minutes = t.interval_minutes,
                        !.last_run_at = isoformat(t.last_run_at)]
         ELSE r : r \in @}]

\* Database.upsert_task: the database afterwards and the object returned
\* (the caller has checked the foreign key)
upsert_task(db, t) ==
    IF t.id = None
    THEN LET d == insert_task(db, t)
         IN [database |-> d, ret |-> [t EXCEPT !.id = d.seq.tasks]]
    ELSE [database |-> update_task(db, t), ret |-> t]

\* update_task_timestamp that deletes the row instead
update_task_timestamp_dropping(db, task_id, timestamp) ==
    [db EXCEPT !.tasks = {r \in @ : r.id # task_id}]

\* Database.update_task_timestamp
update_task_timestamp(db, task_id, timestamp) ==
    [db EXCEPT !.tasks =
        {IF r.id = task_id THEN [r EXCEPT !.last_run_at = isoformat(timestamp)]
         ELSE r : r \in @}]

\* set_aquarium_cleaned that stores the day of the timestamp only
set_aquarium_cleaned_day_only(db, aquarium_id, timestamp) ==
    [db EXCEPT !.aquariums =
        {IF r.id = aquarium_id
         THEN [r EXCEPT !.cleanliness = Full,
                        !.last_cleaned_at = <<timestamp \div 1440, 0, 0>>]
         ELSE r : r \in @}]

\* set_aquarium_cleaned whose UPDATE has no WHERE clause
set_aquarium_cleaned_every_row(db, aquarium_id, timestamp) ==
    [db EXCEPT !.aquariums =
        {[r EXCEPT !.cleanliness = Full, !.last_cleaned_at = isoformat(timestamp)]
           : r \in @}]

\* Database.set_aquarium_cleaned
set_aquarium_cleaned(db, aquarium_id, timestamp) ==
    [db EXCEPT !.aquariums =
        {IF r.id = aquarium_id
         THEN [r EXCEPT !.cleanliness = Full, !.last_cleaned_at = isoformat(timestamp)]
         ELSE r : r \in @}]

\* Database.refresh_aquarium_environment: the returned aquarium
refreshed_aquarium(a, temperature_delta, cleanliness_delta) ==
    [a EXCEPT !.current_temperature = @ + temperature_delta,
              !.cleanliness = Max(0, Min(Full, @ + cleanliness_delta))]

\* refresh_aquarium_environment that writes every column of the row
refresh_aquarium_environment_every_column(db, a, temperature_delta, cleanliness_delta) ==
    LET n == refreshed_aquarium(a, temperature_delta, cleanliness_delta)
    IN [db EXCEPT !.aquariums = {IF r.id = a.id THEN AquariumRow(n) ELSE r : r \in @}]

\* Database.refresh_aquarium_environment: the database afterwards
refresh_aquarium_environment(db, a, temperature_delta, cleanliness_delta) ==
    LET n == refreshed_aquarium(a, temperature_delta, cleanliness_delta)
    IN [db EXCEPT !.aquariums =
        {IF r.id = a.id
         THEN [r EXCEPT !.current_temperature = n.current_temperature,
                        !.cleanliness = n.cleanliness]
         ELSE r : r \in @}]

\* the rows Database.ensure_defaults inserts into an empty aquariums table
seeded(db, t) ==
    LET aid == db.seq.aquariums + 1
        d1 == insert_aquarium(db,
                [id |-> None, name |-> "Aquario Principal",
                 target_temperature |-> SeedTemperature,
                 current_temperature |-> SeedTemperature,
                 cleanliness |-> SeedCleanliness,
                 last_cleaned_at |-> t - SeedCleanedAgo])
        F(n, sp) == [id |-> None, aquarium_id |-> aid, name |-> n, species |-> sp,
                     hunger |-> SeedHunger, health |-> SeedHealth, created_at |-> t]
        d2 == insert_fish(d1, F("Coral Blue", "Peixe-palhaco"))
        d3 == insert_fish(d2, F("Bolhas", "Tetra Neon"))
        d4 == insert_fish(d3, F("Foguete", "Guppy"))
        T(k, i) == [id |-> None, aquarium_id |-> aid, kind |-> k,
                    interval_minutes |-> i, last_run_at |-> t - i]
        d5 == insert_task(d4, T("alimentacao", 240))
        d6 == insert_task(d5, T("limpeza", 1440))
    IN insert_task(d6, T("temperatura", 180))

\* ensure_defaults without the check for an aquarium row
db_ensure_defaults_unguarded(db, t) == seeded(db, t)

\* Database.ensure_defaults at time t: the database afterwards
db_ensure_defaults(db, t) == IF db.aquariums # {} THEN db ELSE seeded(db, t)

\* -------------------------------------------------------------- the engine
\* dict.get(key, [])
Get(m, k) == IF k \in DOMAIN m THEN m[k] ELSE <<>>

\* m[key] = value
Put(m, k, v) == [x \in DOMAIN m \cup {k} |-> IF x = k THEN v ELSE m[x]]

\* no cache snapshot, no Task object, no store call
NoCache == [aquariums |-> <<>>, fish |-> <<>>, tasks |-> <<>>]
NoTask == [id |-> None, aquarium_id |-> None, kind |-> "", interval_minutes |-> 0,
           last_run_at |-> 0]
NoWrite == ""
NoObject == [id |-> None]

\* the store calls of tick() that can raise
TickWrites == {"update_fish", "upsert_aquarium"}

\* the record of a call: its name, whether it returned (ok) or raised, and
\* its arguments (the aquarium id, the fish or task id, the elapsed minutes,
\* whether the task passed in is one of the engine's own objects); where a
\* call sets them, the engine's collections as the call found them (before),
\* the Task object passed as the call left it (task), the store call that
\* raised (at), the argument that is not an id (arg) and the object the call
\* returns (ret)
Call(op, ok, aq, id, minutes, cached) ==
    [op |-> op, ok |-> ok, aq |-> aq, id |-> id, minutes |-> minutes, cached |-> cached,
     before |-> NoCache, task |-> NoTask, at |-> NoWrite, arg |-> NoObject,
     ret |-> NoObject]

\* the engine's three collections
Cache == [aquariums |-> aquariums, fish |-> fish, tasks |-> tasks]

CachedIds == {aquariums[i].id : i \in DOMAIN aquariums} \ {None}

\* SimulationEngine.reload: the three collections read from the database
reload_aquariums(db) == db_aquariums(db)
reload_fish(db) ==
    LET aqs == db_aquariums(db)
    IN [k \in {aqs[i].id : i \in DOMAIN aqs} \ {None} |-> fish_for_aquarium(db, k)]
reload_tasks(db) ==
    LET aqs == db_aquariums(db)
    IN [k \in {aqs[i].id : i \in DOMAIN aqs} \ {None} |-> tasks_for_aquarium(db, k)]

\* ticked_aquarium without the floor of cleanliness at 0
ticked_aquarium_no_floor(a, minutes) ==
    [a EXCEPT
       !.current_temperature =
           @ + Mul(a.target_temperature - @, Scale - exp18(minutes)),
       !.cleanliness = @ - minutes * CleanRate]

\* ticked_aquarium that loses 0.001 degrees per minute besides
ticked_aquarium_cooling(a, minutes) ==
    [a EXCEPT
       !.current_temperature =
           @ + Mul(a.target_temperature - @, Scale - exp18(minutes)) - minutes,
       !.cleanliness = Max(0, @ - minutes * CleanRate)]

\* ticked_aquarium whose adjustment ratio is linear in the minutes, up to 1
ticked_aquarium_linear(a, minutes) ==
    LET adjustment_ratio == Min(Scale, (minutes * Scale) \div 18)
    IN [a EXCEPT
          !.current_temperature =
              @ + Mul(a.target_temperature - @, adjustment_ratio),
          !.cleanliness = Max(0, @ - minutes * CleanRate)]

\* SimulationEngine.tick, lines 52-54: one aquarium after `minutes`
ticked_aquarium(a, minutes) ==
    LET adjustment_ratio == Scale - exp18(minutes)
    IN [a EXCEPT
          !.current_temperature =
              @ + Mul(a.target_temperature - @, adjustment_ratio),
          !.cleanliness = Max(0, @ - minutes * CleanRate)]

\* SimulationEngine.tick, lines 58-65: the penalty of a fish with hunger h
tick_penalty(h, a, minutes) ==
    LET temperature_gap == Abs(a.current_temperature - a.target_temperature)
    IN (IF h > HungerStress THEN Mul(h - HungerStress, HungerPenalty) * minutes ELSE 0)
       + (IF temperature_gap > TempTolerance
          THEN Mul(temperature_gap - TempTolerance, TempPenalty) * minutes ELSE 0)
       + (IF a.cleanliness < CleanStress
          THEN Mul(CleanStress - a.cleanliness, CleanPenalty) * minutes ELSE 0)

\* ticked_fish without the lower bound of health
ticked_fish_no_floor(f, a, minutes) ==
    LET hunger == Min(Full, f.hunger + minutes * HungerRate)
    IN [f EXCEPT !.hunger = hunger,
                 !.health = Min(Full, @ - tick_penalty(hunger, a, minutes))]

\* ticked_fish without the cap of hunger
ticked_fish_no_cap(f, a, minutes) ==
    LET hunger == f.hunger + minutes * HungerRate
    IN [f EXCEPT !.hunger = hunger,
                 !.health = Max(MinHealth, Min(Full, @ - tick_penalty(hunger, a, minutes)))]

\* ticked_fish with the hunger penalty taken from the hunger before the tick
ticked_fish_old_hunger(f, a, minutes) ==
    [f EXCEPT !.hunger = Min(Full, @ + minutes * HungerRate),
              !.health = Max(MinHealth, Min(Full, @ - tick_penalty(f.hunger, a, minutes)))]

\* ticked_fish that counts at most an hour of hunger per tick
ticked_fish_capped_step(f, a, minutes) ==
    LET hunger == Min(Full, f.hunger + Min(minutes, 60) * HungerRate)
        penalty == tick_penalty(hunger, a, minutes)
    IN [f EXCEPT !.hunger = hunger,
                 !.health = Max(MinHealth, Min(Full, @ - penalty))]

\* ticked_fish in which a fish without penalty recovers one point of health
ticked_fish_recovering(f, a, minutes) ==
    LET hunger == Min(Full, f.hunger + minutes * HungerRate)
        penalty == tick_penalty(hunger, a, minutes)
    IN [f EXCEPT !.hunger = hunger,
                 !.health = Max(MinHealth,
                                Min(Full, @ - penalty + (IF penalty = 0 THEN Scale ELSE 0)))]

\* SimulationEngine.tick, lines 57-66: one fish of aquarium a, a already updated
ticked_fish(f, a, minutes) ==
    LET hunger == Min(Full, f.hunger + minutes * HungerRate)
        penalty == tick_penalty(hunger, a, minutes)
    IN [f EXCEPT !.hunger = hunger,
                 !.health = Max(MinHealth, Min(Full, @ - penalty))]

\* tick_loop that stops after the first aquarium
tick_loop_first_only(st, minutes, i) ==
    IF i > Min(1, Len(st.aquariums)) THEN st
    ELSE LET a == st.aquariums[i]
             a2 == ticked_aquarium(a, minutes)
             fishes == Get(st.fish, a.id)
             fishes2 == [j \in DOMAIN fishes |-> ticked_fish(fishes[j], a2, minutes)]
         IN [aquariums |-> [st.aquariums EXCEPT ![i] = a2],
             fish |-> IF a.id \in DOMAIN st.fish
                      THEN [st.fish EXCEPT ![a.id] = fishes2] ELSE st.fish,
             database |-> update_aquarium(update_fish(st.database, fishes2), a2)]

\* SimulationEngine.tick, the loop of lines 49-68 from aquarium i on;
\* st holds the engine's collections and the database
RECURSIVE tick_loop(_, _, _)
tick_loop(st, minutes, i) ==
    IF i > Len(st.aquariums) THEN st
    ELSE LET a == st.aquariums[i]
         IN IF a.id = None THEN tick_loop(st, minutes, i + 1)
            ELSE LET a2 == ticked_aquarium(a, minutes)
                     fishes == Get(st.fish, a.id)
                     fishes2 == [j \in DOMAIN fishes |-> ticked_fish(fishes[j], a2, minutes)]
                 IN tick_loop(
                      [aquariums |-> [st.aquariums EXCEPT ![i] = a2],
                       fish |-> IF a.id \in DOMAIN st.fish
                                THEN [st.fish EXCEPT ![a.id] = fishes2] ELSE st.fish,
                       database |-> update_aquarium(update_fish(st.database, fishes2), a2)],
                      minutes, i + 1)

\* fed_fish without the floor of hunger at 0
fed_fish_no_floor(f) ==
    [f EXCEPT !.hunger = @ - FeedHunger,
              !.health = Min(Full, @ + FeedHealth)]

\* SimulationEngine.feed_fish, lines 75-76
fed_fish(f) ==
    [f EXCEPT !.hunger = Max(0, @ - FeedHunger),
              !.health = Min(Full, @ + FeedHealth)]

\* the position of the first aquarium with this id in a list, 0 if none
FirstWithId(aqs, aquarium_id) ==
    IF \E i \in DOMAIN aqs : aqs[i].id = aquarium_id
    THEN CHOOSE i \in DOMAIN aqs :
            /\ aqs[i].id = aquarium_id
            /\ \A j \in DOMAIN aqs : aqs[j].id = aquarium_id => i <= j
    ELSE 0

\* due_tasks_from with a strict comparison against the threshold
RECURSIVE due_tasks_strict(_, _, _, _)
due_tasks_strict(aqs, tks, t, i) ==
    IF i > Len(aqs) THEN <<>>
    ELSE LET a == aqs[i]
             ts == Get(tks, a.id)
             IsDue(task) == t > task.last_run_at + task.interval_minutes
             pending == SelectSeq(ts, IsDue)
         IN (IF a.id = None THEN <<>>
             ELSE [j \in DOMAIN pending |-> <<pending[j], a>>])
            \o due_tasks_strict(aqs, tks, t, i + 1)

\* SimulationEngine.due_tasks over the collections aqs and tks at wall-clock
\* time t, from aquarium i on: (task, aquarium) pairs
RECURSIVE due_tasks_from(_, _, _, _)
due_tasks_from(aqs, tks, t, i) ==
    IF i > Len(aqs) THEN <<>>
    ELSE LET a == aqs[i]
             ts == Get(tks, a.id)
             IsDue(task) == t >= task.last_run_at + task.interval_minutes
             pending == SelectSeq(ts, IsDue)
         IN (IF a.id = None THEN <<>>
             ELSE [j \in DOMAIN pending |-> <<pending[j], a>>])
            \o due_tasks_from(aqs, tks, t, i + 1)

\* SimulationEngine.due_tasks when datetime.now() returns t
due_tasks_at(t) == due_tasks_from(aquariums, tasks, t, 1)
due_tasks == due_tasks_at(now)

\* ----------------------------------------------------------------- actions
\* an engine call is made while the run has calls left
Running == phase = "running" /\ calls < MaxCalls /\ calls' = calls + 1

\* the database file a run finds: none yet, or the one an earlier run left
\* after seeding it AgedMinutes ago, one tick and one feeding
AgedDatabase ==
    LET d0 == seeded(EmptyDatabase, -AgedMinutes)
        st == tick_loop([aquariums |-> reload_aquariums(d0), fish |-> reload_fish(d0),
                         database |-> d0], AgedMinutes, 1)
    IN UNION {{update_fish(st.database, MapSeq(fed_fish, st.fish[k]))}
              : k \in DOMAIN st.fish}

Init ==
    /\ database \in {EmptyDatabase} \cup AgedDatabase
    /\ aquariums = <<>>
    /\ fish = <<>>
    /\ tasks = <<>>
    /\ last_tick = 0
    /\ now = 0
    /\ elapses = 0
    /\ calls = 0
    /\ phase = "start"
    /\ last = Call("init", TRUE, None, None, 0, FALSE)

\* the wall clock advances
Elapse ==
    /\ phase = "running"
    /\ elapses < MaxElapses
    /\ \E d \in ElapsedSet :
        /\ now' = now + d
        /\ last' = Call("elapse", TRUE, None, None, d, FALSE)
    /\ elapses' = elapses + 1
    /\ UNCHANGED <<database, aquariums, fish, tasks, last_tick, calls, phase>>

\* Database.ensure_defaults, called by main() before the engine exists
ensure_defaults ==
    /\ phase = "start"
    /\ IF database.aquariums # {}
       THEN UNCHANGED database
       ELSE /\ database.seq.aquariums < MaxAquariumId
            /\ database.seq.fish + 3 <= MaxFishId
            /\ database.seq.tasks + 3 <= MaxTaskId
            /\ database' = seeded(database, now)
    /\ phase' = "seeded"
    /\ last' = Call("ensure_defaults", TRUE, None, None, 0, FALSE)
    /\ UNCHANGED <<aquariums, fish, tasks, last_tick, now, elapses, calls>>

\* SimulationEngine.__init__
EngineInit ==
    /\ phase = "seeded"
    /\ aquariums' = reload_aquariums(database)
    /\ fish' = reload_fish(database)
    /\ tasks' = reload_tasks(database)
    /\ last_tick' = now
    /\ phase' = "running"
    /\ last' = Call("__init__", TRUE, None, None, 0, FALSE)
    /\ UNCHANGED <<database, now, elapses, calls>>

\* reload that leaves the last-tick timestamp as it was
reload_keep_last_tick ==
    /\ Running
    /\ aquariums' = reload_aquariums(database)
    /\ fish' = reload_fish(database)
    /\ tasks' = reload_tasks(database)
    /\ last' = [Call("reload", TRUE, None, None, 0, FALSE) EXCEPT !.before = Cache]
    /\ UNCHANGED <<database, last_tick, now, elapses, phase>>

\* SimulationEngine.reload
reload ==
    /\ Running
    /\ aquariums' = reload_aquariums(database)
    /\ fish' = reload_fish(database)
    /\ tasks' = reload_tasks(database)
    /\ last_tick' = now
    /\ last' = [Call("reload", TRUE, None, None, 0, FALSE) EXCEPT !.before = Cache]
    /\ UNCHANGED <<database, now, elapses, phase>>

\* tick that moves the last-tick timestamp even when no time has elapsed
tick_unguarded ==
    /\ Running
    /\ LET elapsed == now - last_tick
       IN /\ last' = Call("tick", TRUE, None, None, elapsed, FALSE)
          /\ IF elapsed <= 0
             THEN UNCHANGED <<database, aquariums, fish>>
             ELSE LET st == tick_loop([aquariums |-> aquariums, fish |-> fish,
                                       database |-> database], elapsed, 1)
                  IN /\ aquariums' = st.aquariums
                     /\ fish' = st.fish
                     /\ database' = st.database
    /\ last_tick' = now
    /\ UNCHANGED <<tasks, now, elapses, phase>>

\* SimulationEngine.tick
tick ==
    /\ Running
    /\ LET elapsed == now - last_tick
       IN /\ last' = Call("tick", TRUE, None, None, elapsed, FALSE)
          /\ IF elapsed <= 0
             THEN UNCHANGED <<database, aquariums, fish, last_tick>>
             ELSE LET st == tick_loop([aquariums |-> aquariums, fish |-> fish,
                                       database |-> database], elapsed, 1)
                  IN /\ aquariums' = st.aquariums
                     /\ fish' = st.fish
                     /\ database' = st.database
                     /\ last_tick' = now
    /\ UNCHANGED <<tasks, now, elapses, phase>>

\* SimulationEngine.tick when the store call `write` raises while the k-th
\* aquarium is processed: the collections and the database the exception
\* leaves behind (lines 52-66 have run for aquarium k; update_fish has
\* committed if the call that raised is upsert_aquarium)
failed_tick(k, write, elapsed) ==
    LET st == tick_loop([aquariums |-> SubSeq(aquariums, 1, k - 1), fish |-> fish,
                         database |-> database], elapsed, 1)
        a == aquariums[k]
        a2 == ticked_aquarium(a, elapsed)
        fishes == Get(st.fish, a.id)
        fishes2 == [j \in DOMAIN fishes |-> ticked_fish(fishes[j], a2, elapsed)]
    IN [aquariums |-> st.aquariums \o <<a2>> \o SubSeq(aquariums, k + 1, Len(aquariums)),
        fish |-> IF a.id \in DOMAIN st.fish
                 THEN [st.fish EXCEPT ![a.id] = fishes2] ELSE st.fish,
        database |-> IF write = "upsert_aquarium"
                     THEN update_fish(st.database, fishes2) ELSE st.database]

\* tick_fails that advances the last-tick timestamp all the same
tick_fails_advancing(k, write) ==
    /\ Running
    /\ k \in DOMAIN aquariums
    /\ aquariums[k].id # None
    /\ now - last_tick > 0
    /\ LET st == failed_tick(k, write, now - last_tick)
       IN /\ aquariums' = st.aquariums
          /\ fish' = st.fish
          /\ database' = st.database
    /\ last_tick' = now
    /\ last' = [Call("tick", FALSE, aquariums[k].id, k, now - last_tick, FALSE)
                  EXCEPT !.before = Cache, !.at = write]
    /\ UNCHANGED <<tasks, now, elapses, phase>>

\* SimulationEngine.tick in which a store call raises (sqlite3.Error) while
\* the k-th aquarium is processed; the exception leaves tick() at once
tick_fails(k, write) ==
    /\ Running
    /\ k \in DOMAIN aquariums
    /\ aquariums[k].id # None
    /\ now - last_tick > 0
    /\ LET st == failed_tick(k, write, now - last_tick)
       IN /\ aquariums' = st.aquariums
          /\ fish' = st.fish
          /\ database' = st.database
    /\ last' = [Call("tick", FALSE, aquariums[k].id, k, now - last_tick, FALSE)
                  EXCEPT !.before = Cache, !.at = write]
    /\ UNCHANGED <<tasks, last_tick, now, elapses, phase>>

\* SimulationEngine.feed_fish
feed_fish(aquarium_id) ==
    /\ Running
    /\ LET fishes == Get(fish, aquarium_id)
           updated == [i \in DOMAIN fishes |-> fed_fish(fishes[i])]
       IN IF updated # <<>>
          THEN /\ database' = update_fish(database, updated)
               /\ fish' = Put(fish, aquarium_id, updated)
          ELSE UNCHANGED <<database, fish>>
    /\ last' = Call("feed_fish", TRUE, aquarium_id, None, 0, FALSE)
    /\ UNCHANGED <<aquariums, tasks, last_tick, now, elapses, phase>>

\* SimulationEngine.clean_aquarium
clean_aquarium(aquarium_id) ==
    /\ Running
    /\ LET i == FirstWithId(aquariums, aquarium_id)
       IN IF i # 0
          THEN /\ aquariums' = [aquariums EXCEPT ![i].cleanliness = Full,
                                                 ![i].last_cleaned_at = now]
               /\ database' = set_aquarium_cleaned(database, aquarium_id, now)
          ELSE UNCHANGED <<database, aquariums>>
    /\ last' = Call("clean_aquarium", TRUE, aquarium_id, None, 0, FALSE)
    /\ UNCHANGED <<fish, tasks, last_tick, now, elapses, phase>>

\* SimulationEngine.clean_aquarium in which set_aquarium_cleaned raises
\* (sqlite3.Error): lines 86-87 have run, the row is not written
clean_aquarium_fails(aquarium_id) ==
    /\ Running
    /\ LET i == FirstWithId(aquariums, aquarium_id)
       IN /\ i # 0
          /\ aquariums' = [aquariums EXCEPT ![i].cleanliness = Full,
                                            ![i].last_cleaned_at = now]
    /\ last' = [Call("clean_aquarium", FALSE, aquarium_id, None, 0, FALSE)
                  EXCEPT !.at = "set_aquarium_cleaned"]
    /\ UNCHANGED <<database, fish, tasks, last_tick, now, elapses, phase>>

\* SimulationEngine.adjust_temperature
adjust_temperature(aquarium_id, target_temperature) ==
    /\ Running
    /\ LET i == FirstWithId(aquariums, aquarium_id)
       IN IF i # 0
          THEN /\ aquariums' = [aquariums EXCEPT ![i].target_temperature = target_temperature]
               /\ database' = update_aquarium(database,
                     [aquariums[i] EXCEPT !.target_temperature = target_temperature])
          ELSE UNCHANGED <<database, aquariums>>
    /\ last' = [Call("adjust_temperature", TRUE, aquarium_id, None, 0, FALSE)
                  EXCEPT !.arg = target_temperature]
    /\ UNCHANGED <<fish, tasks, last_tick, now, elapses, phase>>

\* SimulationEngine.delete_aquarium
delete_aquarium(aquarium_id) ==
    /\ Running
    /\ LET db == db_delete_aquarium(database, aquarium_id)
       IN /\ database' = db
          /\ aquariums' = reload_aquariums(db)
          /\ fish' = reload_fish(db)
          /\ tasks' = reload_tasks(db)
    /\ last_tick' = now
    /\ last' = Call("delete_aquarium", TRUE, aquarium_id, None, 0, FALSE)
    /\ UNCHANGED <<now, elapses, phase>>

\* create_aquarium that does not register the fish and task collections
create_aquarium_unregistered(name, target_temperature) ==
    /\ Running
    /\ database.seq.aquariums < MaxAquariumId
    /\ LET aquarium == [id |-> None, name |-> name,
                        target_temperature |-> target_temperature,
                        current_temperature |-> target_temperature,
                        cleanliness |-> NewCleanliness,
                        last_cleaned_at |-> now]
           db == insert_aquarium(database, aquarium)
           stored == [aquarium EXCEPT !.id = db.seq.aquariums]
       IN /\ database' = db
          /\ aquariums' = Append(aquariums, stored)
          /\ last' = [Call("create_aquarium", TRUE, stored.id, stored.id, 0, FALSE)
                        EXCEPT !.arg = [name |-> name,
                                        target_temperature |-> target_temperature],
                               !.ret = stored]
    /\ UNCHANGED <<fish, tasks, last_tick, now, elapses, phase>>

\* SimulationEngine.create_aquarium
create_aquarium(name, target_temperature) ==
    /\ Running
    /\ database.seq.aquariums < MaxAquariumId
    /\ LET aquarium == [id |-> None, name |-> name,
                        target_temperature |-> target_temperature,
                        current_temperature |-> target_temperature,
                        cleanliness |-> NewCleanliness,
                        last_cleaned_at |-> now]
           db == insert_aquarium(database, aquarium)
           stored == [aquarium EXCEPT !.id = db.seq.aquariums]
       IN /\ database' = db
          /\ aquariums' = Append(aquariums, stored)
          /\ fish' = Put(fish, stored.id, <<>>)
          /\ tasks' = Put(tasks, stored.id, <<>>)
          /\ last' = [Call("create_aquarium", TRUE, stored.id, stored.id, 0, FALSE)
                        EXCEPT !.arg = [name |-> name,
                                        target_temperature |-> target_temperature],
                               !.ret = stored]
    /\ UNCHANGED <<last_tick, now, elapses, phase>>

\* create_fish that puts the new fish at the head of the list
create_fish_prepend(aquarium_id, name, species) ==
    /\ Running
    /\ database.seq.fish < MaxFishId
    /\ LET f == [id |-> None, aquarium_id |-> aquarium_id, name |-> name,
                 species |-> species, hunger |-> NewHunger, health |-> NewHealth,
                 created_at |-> now]
           db == insert_fish(database, f)
           stored == [f EXCEPT !.id = db.seq.fish]
       IN IF ForeignKeyOk(database, aquarium_id)
          THEN /\ database' = db
               /\ fish' = Put(fish, aquarium_id, <<stored>> \o Get(fish, aquarium_id))
               /\ last' = [Call("create_fish", TRUE, aquarium_id, stored.id, 0, FALSE)
                             EXCEPT !.ret = stored]
          ELSE /\ UNCHANGED <<database, fish>>
               /\ last' = Call("create_fish", FALSE, aquarium_id, None, 0, FALSE)
    /\ UNCHANGED <<aquariums, tasks, last_tick, now, elapses, phase>>

\* SimulationEngine.create_aquarium in which upsert_aquarium raises
\* (sqlite3.Error): line 118 is left by the exception, lines 119-125 do not run
create_aquarium_fails(name, target_temperature) ==
    /\ Running
    /\ last' = [Call("create_aquarium", FALSE, None, None, 0, FALSE)
                  EXCEPT !.at = "upsert_aquarium",
                         !.arg = [name |-> name,
                                  target_temperature |-> target_temperature]]
    /\ UNCHANGED <<database, aquariums, fish, tasks, last_tick, now, elapses, phase>>

\* SimulationEngine.create_fish
create_fish(aquarium_id, name, species) ==
    /\ Running
    /\ database.seq.fish < MaxFishId
    /\ LET f == [id |-> None, aquarium_id |-> aquarium_id, name |-> name,
                 species |-> species, hunger |-> NewHunger, health |-> NewHealth,
                 created_at |-> now]
           db == insert_fish(database, f)
           stored == [f EXCEPT !.id = db.seq.fish]
       IN IF ForeignKeyOk(database, aquarium_id)
          THEN /\ database' = db
               /\ fish' = Put(fish, aquarium_id, Append(Get(fish, aquarium_id), stored))
               /\ last' = [Call("create_fish", TRUE, aquarium_id, stored.id, 0, FALSE)
                             EXCEPT !.ret = stored]
          ELSE /\ UNCHANGED <<database, fish>>
               /\ last' = Call("create_fish", FALSE, aquarium_id, None, 0, FALSE)
    /\ UNCHANGED <<aquariums, tasks, last_tick, now, elapses, phase>>

\* SimulationEngine.remove_fish
remove_fish(fish_id, aquarium_id) ==
    /\ Running
    /\ LET fishes == Get(fish, aquarium_id)
           Keep(f) == f.id # fish_id
       IN fish' = Put(fish, aquarium_id, SelectSeq(fishes, Keep))
    /\ database' = delete_fish(database, fish_id)
    /\ last' = Call("remove_fish", TRUE, aquarium_id, fish_id, 0, FALSE)
    /\ UNCHANGED <<aquariums, tasks, last_tick, now, elapses, phase>>

\* add_task that appends the task to the engine's list before it is stored
add_task_cache_first(aquarium_id, kind, interval_minutes) ==
    /\ Running
    /\ database.seq.tasks < MaxTaskId
    /\ LET task == [id |-> None, aquarium_id |-> aquarium_id, kind |-> kind,
                    interval_minutes |-> interval_minutes,
                    last_run_at |-> now - interval_minutes]
           db == insert_task(database, task)
           stored == [task EXCEPT !.id = db.seq.tasks]
       IN IF ForeignKeyOk(database, aquarium_id)
          THEN /\ database' = db
               /\ tasks' = Put(tasks, aquarium_id, Append(Get(tasks, aquarium_id), stored))
               /\ last' = Call("add_task", TRUE, aquarium_id, stored.id, 0, FALSE)
          ELSE /\ UNCHANGED database
               /\ tasks' = Put(tasks, aquarium_id, Append(Get(tasks, aquarium_id), task))
               /\ last' = Call("add_task", FALSE, aquarium_id, None, 0, FALSE)
    /\ UNCHANGED <<aquariums, fish, last_tick, now, elapses, phase>>

\* SimulationEngine.add_task
add_task(aquarium_id, kind, interval_minutes) ==
    /\ Running
    /\ database.seq.tasks < MaxTaskId
    /\ LET task == [id |-> None, aquarium_id |-> aquarium_id, kind |-> kind,
                    interval_minutes |-> interval_minutes,
                    last_run_at |-> now - interval_minutes]
           db == insert_task(database, task)
           stored == [task EXCEPT !.id = db.seq.tasks]
       IN IF ForeignKeyOk(database, aquarium_id)
          THEN /\ database' = db
               /\ tasks' = Put(tasks, aquarium_id, Append(Get(tasks, aquarium_id), stored))
               /\ last' = Call("add_task", TRUE, aquarium_id, stored.id, 0, FALSE)
          ELSE /\ UNCHANGED <<database, tasks>>
               /\ last' = Call("add_task", FALSE, aquarium_id, None, 0, FALSE)
    /\ UNCHANGED <<aquariums, fish, last_tick, now, elapses, phase>>

\* mark_cached_task_done that writes the store but not the task object
mark_cached_task_done_store_only(k, i) ==
    /\ k \in DOMAIN tasks
    /\ i \in DOMAIN tasks[k]
    /\ tasks[k][i].id # None
    /\ UNCHANGED tasks
    /\ database' = update_task_timestamp(database, tasks[k][i].id, now)
    /\ last' = [Call("mark_task_done", TRUE, k, tasks[k][i].id, 0, TRUE)
                  EXCEPT !.task = tasks[k][i]]

\* SimulationEngine.mark_task_done on one of the engine's own task objects,
\* the i-th task held under key k
mark_cached_task_done(k, i) ==
    /\ k \in DOMAIN tasks
    /\ i \in DOMAIN tasks[k]
    /\ LET task == tasks[k][i]
       IN /\ task.id # None
          /\ tasks' = [tasks EXCEPT ![k][i].last_run_at = now]
          /\ database' = update_task_timestamp(database, task.id, now)
          /\ last' = [Call("mark_task_done", TRUE, k, task.id, 0, TRUE)
                        EXCEPT !.task = [task EXCEPT !.last_run_at = now]]

\* mark_new_task_done without the call of update_task_timestamp
mark_new_task_done_insert_only(aquarium_id, kind, interval_minutes) ==
    /\ database.seq.tasks < MaxTaskId
    /\ LET task == [id |-> None, aquarium_id |-> aquarium_id, kind |-> kind,
                    interval_minutes |-> interval_minutes,
                    last_run_at |-> now - interval_minutes]
           db == insert_task(database, task)
       IN IF ForeignKeyOk(database, aquarium_id)
          THEN /\ database' = db
               /\ last' = [Call("mark_task_done", TRUE, aquarium_id, db.seq.tasks, 0, FALSE)
                             EXCEPT !.task = [task EXCEPT !.id = db.seq.tasks,
                                                          !.last_run_at = now]]
          ELSE /\ UNCHANGED database
               /\ last' = Call("mark_task_done", FALSE, aquarium_id, None, 0, FALSE)
    /\ UNCHANGED tasks

\* SimulationEngine.mark_task_done on a Task object the caller built, which
\* has no id, an earlier last run, and is in none of the engine's collections
mark_new_task_done(aquarium_id, kind, interval_minutes) ==
    /\ database.seq.tasks < MaxTaskId
    /\ LET task == [id |-> None, aquarium_id |-> aquarium_id, kind |-> kind,
                    interval_minutes |-> interval_minutes,
                    last_run_at |-> now - interval_minutes]
           db == insert_task(database, task)
       IN IF ForeignKeyOk(database, aquarium_id)
          THEN /\ database' = update_task_timestamp(db, db.seq.tasks, now)
               /\ last' = [Call("mark_task_done", TRUE, aquarium_id, db.seq.tasks, 0, FALSE)
                             EXCEPT !.task = [task EXCEPT !.id = db.seq.tasks,
                                                          !.last_run_at = now]]
          ELSE /\ UNCHANGED database
               /\ last' = Call("mark_task_done", FALSE, aquarium_id, None, 0, FALSE)
    /\ UNCHANGED tasks

\* SimulationEngine.mark_task_done
mark_task_done ==
    /\ Running
    /\ \/ \E k \in AquariumIds, i \in 1..MaxTaskId : mark_cached_task_done(k, i)
       \/ \E a \in AquariumIds, kind \in OwnKindSet, n \in IntervalSet :
             mark_new_task_done(a, kind, n)
    /\ UNCHANGED <<aquariums, fish, last_tick, now, elapses, phase>>

Next ==
    \/ Elapse
    \/ ensure_defaults
    \/ EngineInit
    \/ reload
    \/ tick
    \/ \E k \in AquariumIds, w \in TickWrites : tick_fails(k, w)
    \/ \E a \in AquariumIds : feed_fish(a)
    \/ \E a \in AquariumIds : clean_aquarium(a)
    \/ \E a \in AquariumIds : clean_aquarium_fails(a)
    \/ \E a \in AquariumIds, t \in TargetSet : adjust_temperature(a, t)
    \/ \E a \in AquariumIds : delete_aquarium(a)
    \/ \E n \in NameSet, t \in TargetSet : create_aquarium(n, t)
    \/ \E n \in NameSet, t \in TargetSet : create_aquarium_fails(n, t)
    \/ \E a \in AquariumIds, n \in FishNameSet, s \in SpeciesSet : create_fish(a, n, s)
    \/ \E f \in FishIdSet, a \in AquariumIds : remove_fish(f, a)
    \/ \E a \in AquariumIds, k \in KindSet, n \in IntervalSet : add_task(a, k, n)
    \/ mark_task_done

Spec == Init /\ [][Next]_vars

\* ------------------------------------------- the Database used on its own
\* a Database on a new file, no engine built on it
StoreInit ==
    /\ database = EmptyDatabase
    /\ aquariums = <<>>
    /\ fish = <<>>
    /\ tasks = <<>>
    /\ last_tick = 0
    /\ now = 0
    /\ elapses = 0
    /\ calls = 0
    /\ phase = "store"
    /\ last = Call("init", TRUE, None, None, 0, FALSE)

\* a call is made on the Database while there are calls left
StoreRunning == phase = "store" /\ calls < StoreCalls /\ calls' = calls + 1

\* Database.ensure_defaults, called at any time
Database_ensure_defaults ==
    /\ StoreRunning
    /\ \E d \in StoreElapsedSet :
          /\ now' = now + d
          /\ database' = db_ensure_defaults(database, now + d)
    /\ last' = Call("Database.ensure_defaults", TRUE, None, None, 0, FALSE)
    /\ UNCHANGED <<aquariums, fish, tasks, last_tick, elapses, phase>>

\* Database.upsert_aquarium
Database_upsert_aquarium(a) ==
    /\ StoreRunning
    /\ LET r == upsert_aquarium(database, a)
       IN /\ database' = r.database
          /\ last' = [Call("Database.upsert_aquarium", TRUE, a.id, r.ret.id, 0, FALSE)
                        EXCEPT !.arg = a, !.ret = r.ret]
    /\ UNCHANGED <<aquariums, fish, tasks, last_tick, now, elapses, phase>>

\* Database.update_fish
Database_update_fish(fishes) ==
    /\ StoreRunning
    /\ database' = update_fish(database, fishes)
    /\ last' = [Call("Database.update_fish", TRUE, None, None, 0, FALSE)
                  EXCEPT !.arg = fishes]
    /\ UNCHANGED <<aquariums, fish, tasks, last_tick, now, elapses, phase>>

\* Database.delete_aquarium
Database_delete_aquarium(aquarium_id) ==
    /\ StoreRunning
    /\ database' = db_delete_aquarium(database, aquarium_id)
    /\ last' = Call("Database.delete_aquarium", TRUE, aquarium_id, None, 0, FALSE)
    /\ UNCHANGED <<aquariums, fish, tasks, last_tick, now, elapses, phase>>

\* Database.insert_fish: IntegrityError when the aquarium has no row
Database_insert_fish(f) ==
    /\ StoreRunning
    /\ IF ForeignKeyOk(database, f.aquarium_id)
       THEN LET db == insert_fish(database, f)
            IN /\ database' = db
               /\ last' = [Call("Database.insert_fish", TRUE, f.aquarium_id,
                                 db.seq.fish, 0, FALSE)
                             EXCEPT !.arg = f, !.ret = [f EXCEPT !.id = db.seq.fish]]
       ELSE /\ UNCHANGED database
            /\ last' = [Call("Database.insert_fish", FALSE, f.aquarium_id, None, 0, FALSE)
                          EXCEPT !.arg = f]
    /\ UNCHANGED <<aquariums, fish, tasks, last_tick, now, elapses, phase>>

\* Database.upsert_task: the INSERT raises IntegrityError when the aquarium
\* has no row; the UPDATE does not write aquarium_id
Database_upsert_task(t) ==
    /\ StoreRunning
    /\ IF t.id # None \/ ForeignKeyOk(database, t.aquarium_id)
       THEN LET r == upsert_task(database, t)
            IN /\ database' = r.database
               /\ last' = [Call("Database.upsert_task", TRUE, t.aquarium_id,
                                 r.ret.id, 0, FALSE)
                             EXCEPT !.arg = t, !.ret = r.ret]
       ELSE /\ UNCHANGED database
            /\ last' = [Call("Database.upsert_task", FALSE, t.aquarium_id, None, 0, FALSE)
                          EXCEPT !.arg = t]
    /\ UNCHANGED <<aquariums, fish, tasks, last_tick, now, elapses, phase>>

\* Database.refresh_aquarium_environment
Database_refresh_aquarium_environment(a, temperature_delta, cleanliness_delta) ==
    /\ StoreRunning
    /\ database' = refresh_aquarium_environment(database, a, temperature_delta,
                                                cleanliness_delta)
    /\ last' = [Call("Database.refresh_aquarium_environment", TRUE, a.id, a.id, 0, FALSE)
                  EXCEPT !.arg = [aquarium |-> a, temperature_delta |-> temperature_delta,
                                  cleanliness_delta |-> cleanliness_delta],
                         !.ret = refreshed_aquarium(a, temperature_delta,
                                                    cleanliness_delta)]
    /\ UNCHANGED <<aquariums, fish, tasks, last_tick, now, elapses, phase>>

StoreNext ==
    \/ Database_ensure_defaults
    \/ \E f \in FishInserts : Database_insert_fish(f)
    \/ \E t \in TaskArgs : Database_upsert_task(t)
    \/ \E a \in {x \in AquariumArgs : x.target_temperature = 16000}, d \in DeltaSet :
          Database_refresh_aquarium_environment(a, d[1], d[2])
    \/ \E a \in AquariumArgs : Database_upsert_aquarium(a)
    \/ \E fishes \in FishLists : Database_update_fish(fishes)
    \/ \E a \in AquariumIds : Database_delete_aquarium(a)

StoreSpec == StoreInit /\ [][StoreNext]_vars

\* ------------------------------------------------ the timer ticking alone
\* the seeded store after adjust_temperature(1, t), or as seeded
TickDatabases ==
    LET d0 == seeded(EmptyDatabase, 0)
    IN {update_aquarium(d0, [db_aquariums(d0)[1] EXCEPT !.target_temperature = t])
          : t \in TargetSet \cup {SeedTemperature}}

\* an engine built on such a store; `before` keeps what it loaded
TickInit ==
    /\ database \in TickDatabases
    /\ aquariums = reload_aquariums(database)
    /\ fish = reload_fish(database)
    /\ tasks = reload_tasks(database)
    /\ last_tick = 0
    /\ now = 0
    /\ elapses = 0
    /\ calls = 0
    /\ phase = "ticking"
    /\ last = [Call("__init__", TRUE, None, None, 0, FALSE)
                 EXCEPT !.before = [aquariums |-> reload_aquariums(database),
                                    fish |-> reload_fish(database),
                                    tasks |-> reload_tasks(database)]]

\* MainWindow._handle_simulation_tick: the timer fires d minutes after the
\* last tick and calls SimulationEngine.tick
timer_tick(d) ==
    /\ phase = "ticking"
    /\ calls < TickCalls
    /\ calls' = calls + 1
    /\ now' = now + d
    /\ LET elapsed == now + d - last_tick
       IN /\ last' = [Call("tick", TRUE, None, None, elapsed, FALSE)
                        EXCEPT !.before = last.before]
          /\ IF elapsed <= 0
             THEN UNCHANGED <<database, aquariums, fish, last_tick>>
             ELSE LET st == tick_loop([aquariums |-> aquariums, fish |-> fish,
                                       database |-> database], elapsed, 1)
                  IN /\ aquariums' = st.aquariums
                     /\ fish' = st.fish
                     /\ database' = st.database
                     /\ last_tick' = now + d
    /\ UNCHANGED <<tasks, elapses, phase>>

TickNext == \E d \in TickElapsedSet : timer_tick(d)

TickSpec == TickInit /\ [][TickNext]_vars

\* ------------------------------------------------------------------ claims
\* the elements of the sequences a dict of lists holds
Values(m) == UNION {{m[k][i] : i \in DOMAIN m[k]} : k \in DOMAIN m}

\* the engine's collections against what the store's list operations return
CacheEqualsStore ==
    /\ aquariums = db_aquariums(database)
    /\ \A k \in AquariumIds \cup DOMAIN fish :
          Get(fish, k) = fish_for_aquarium(database, k)
    /\ \A k \in AquariumIds \cup DOMAIN tasks :
          Get(tasks, k) = tasks_for_aquarium(database, k)

MutatingCalls ==
    {"tick", "feed_fish", "clean_aquarium", "adjust_temperature", "create_aquarium",
     "create_fish", "remove_fish", "add_task", "mark_task_done", "delete_aquarium"}

\* C1: immediately after every mutating engine call that returns, with any
\* arguments, the engine's aquariums, fish and tasks equal, field for field,
\* what the store's list operations return.
C1_CacheEqualsStore ==
    (phase = "running" /\ last.op \in MutatingCalls /\ last.ok) => CacheEqualsStore

AllCachedFish == Values(fish)
AllCachedTasks == Values(tasks)

\* C2: in every reachable state, in the engine and in the store, every
\* aquarium has 0 <= cleanliness <= 100 and every fish has 0 <= hunger <= 100
\* and 10 <= health <= 100.
C2_ValueBounds ==
    /\ \A i \in DOMAIN aquariums :
          aquariums[i].cleanliness >= 0 /\ aquariums[i].cleanliness <= 100 * Scale
    /\ \A r \in database.aquariums :
          r.cleanliness >= 0 /\ r.cleanliness <= 100 * Scale
    /\ \A f \in AllCachedFish :
          /\ f.hunger >= 0 /\ f.hunger <= 100 * Scale
          /\ f.health >= 10 * Scale /\ f.health <= 100 * Scale
    /\ \A r \in database.fish :
          /\ r.hunger >= 0 /\ r.hunger <= 100 * Scale
          /\ r.health >= 10 * Scale /\ r.health <= 100 * Scale

\* a tick that drove cleanliness to the floor, hunger to the cap and health to
\* its lower bound, in the engine and in the store
C2_Witness ==
    /\ last.op = "tick" /\ last.ok /\ last.minutes > 0
    /\ \E i \in DOMAIN aquariums : aquariums[i].cleanliness = 0
    /\ \E r \in database.aquariums : r.cleanliness = 0
    /\ \E f \in AllCachedFish : f.hunger = 100 * Scale /\ f.health = 10 * Scale
    /\ \E r \in database.fish : r.hunger = 100 * Scale /\ r.health = 10 * Scale

\* what feedFish must leave of a fish
C3_Fed(f) ==
    [f EXCEPT !.hunger = IF f.hunger - 45 * Scale >= 0 THEN f.hunger - 45 * Scale ELSE 0,
              !.health = IF f.health + 8 * Scale <= 100 * Scale
                         THEN f.health + 8 * Scale ELSE 100 * Scale]

DueSet(t) == LET d == due_tasks_at(t) IN {d[j][1] : j \in DOMAIN d}

\* the times at which a task's due state is looked at: its threshold, the
\* minutes around it, and the current time
C4_Times(task) ==
    LET th == task.last_run_at + task.interval_minutes
    IN {th - 1, th, th + 1, now}

\* C4: a task of the engine is returned by dueTasks() at time t if and only if
\* t >= last_run + interval_minutes; after reload() every stored task of a
\* stored aquarium whose last run is at least its interval old is returned.
C4_DueIff ==
    /\ \A task \in AllCachedTasks : \A t \in C4_Times(task) :
          (task \in DueSet(t)) <=> (t >= task.last_run_at + task.interval_minutes)
    /\ last.op = "reload" =>
          \A r \in database.tasks :
             (fromisoformat(r.last_run_at) + r.interval_minutes <= now)
                => TaskOf(r) \in DueSet(now)

\* after reload(), one task is due and another is not
C4_Witness ==
    /\ last.op = "reload"
    /\ \E t1, t2 \in AllCachedTasks :
          /\ now >= t1.last_run_at + t1.interval_minutes /\ t1 \in DueSet(now)
          /\ now < t2.last_run_at + t2.interval_minutes /\ t2 \notin DueSet(now)

\* the task with this id held under key k in a dict of task lists
HasTask(tks, k, id) == \E i \in DOMAIN Get(tks, k) : Get(tks, k)[i].id = id
TaskWithId(tks, k, id) ==
    LET ts == Get(tks, k) IN ts[CHOOSE i \in DOMAIN ts : ts[i].id = id]

\* the ids of the tasks dueTasks() returns over given collections at time t
DueIds(aqs, tks, t) ==
    LET d == due_tasks_from(aqs, tks, t, 1) IN {d[j][1].id : j \in DOMAIN d}

\* offsets from the time of a call at which a task's due state is looked at
C5_Offsets(interval) ==
    {0, 1, interval - 1, interval, interval + 1, 2 * interval} \cup ElapsedSet

\* C5: a task created by addTask with a positive interval has last_run =
\* creation time - interval and is due at once; after markTaskDone(task) at
\* time t it is not due at any time in [t, t + interval) and due from
\* t + interval on; its last run changes only by markTaskDone.
C5_DueCycle ==
    [][/\ (last'.op = "add_task" /\ last'.ok) =>
            LET task == TaskWithId(tasks', last'.aq, last'.id)
            IN task.interval_minutes > 0 =>
                  /\ task.last_run_at = now' - task.interval_minutes
                  /\ task.id \in DueIds(aquariums', tasks', now')
       /\ (last'.op = "mark_task_done" /\ last'.cached) =>
            LET task == TaskWithId(tasks', last'.aq, last'.id)
                n == task.interval_minutes
            IN n > 0 =>
                  /\ task.last_run_at = now'
                  /\ \A d \in C5_Offsets(n) :
                        (d >= 0 /\ d < n) => task.id \notin DueIds(aquariums', tasks', now' + d)
                  /\ \A d \in C5_Offsets(n) :
                        d >= n => task.id \in DueIds(aquariums', tasks', now' + d)
       /\ \A k \in DOMAIN tasks : \A i \in DOMAIN tasks[k] :
            (/\ HasTask(tasks', k, tasks[k][i].id)
             /\ ~(last'.op = "mark_task_done" /\ last'.id = tasks[k][i].id))
            => TaskWithId(tasks', k, tasks[k][i].id) = tasks[k][i]
      ]_vars

\* markTaskDone has just run on a task addTask created: it is not due
C5_Witness ==
    /\ last.op = "mark_task_done" /\ last.cached
    /\ HasTask(tasks, last.aq, last.id)
    /\ LET task == TaskWithId(tasks, last.aq, last.id)
       IN /\ task.kind \in KindSet
          /\ task.interval_minutes > 0
          /\ task.last_run_at = now
          /\ task.id \notin DueIds(aquariums, tasks, now)
          /\ task.id \in DueIds(aquariums, tasks, now + task.interval_minutes)

\* C6: after deleteAquarium(id) the engine's aquarium list does not contain
\* id, the store's fish and task queries for id return nothing, the engine's
\* fish and task collections for id are empty; when no aquarium is left, no
\* fish or task row is left in the store.
C6_Cascade ==
    last.op = "delete_aquarium" =>
        /\ \A i \in DOMAIN aquariums : aquariums[i].id # last.aq
        /\ fish_for_aquarium(database, last.aq) = <<>>
        /\ tasks_for_aquarium(database, last.aq) = <<>>
        /\ Get(fish, last.aq) = <<>>
        /\ Get(tasks, last.aq) = <<>>
        /\ aquariums = <<>> => (database.fish = {} /\ database.tasks = {})

\* the only aquarium, which had fish and tasks, has just been deleted
C6_Witness ==
    /\ last.op = "delete_aquarium"
    /\ aquariums = <<>>
    /\ database.seq.aquariums >= last.aq
    /\ database.seq.fish >= 3 /\ database.seq.tasks >= 3
    /\ database.fish = {} /\ database.tasks = {}

\* the row of the aquariums table with this id has this cleanliness
StoredCleanliness(db, id, c) == \E r \in db.aquariums : r.id = id /\ r.cleanliness = c

\* an aquarium with cleanliness 85
C7_Example ==
    [id |-> 1, name |-> "Sala Verde", target_temperature |-> 25 * Scale,
     current_temperature |-> 25 * Scale, cleanliness |-> 85 * Scale,
     last_cleaned_at |-> 0]

\* C7: a tick with elapsed minutes D > 0 sets every aquarium's cleanliness to
\* max(0, cleanliness - 0.18 * D), in the engine and in the store, so it
\* strictly decreases when it was above 0; 85 with D = 50 becomes 76.
C7_TickCleanliness ==
    [][(last'.op = "tick" /\ last'.ok /\ last'.minutes > 0) =>
         /\ Len(aquariums') = Len(aquariums)
         /\ \A i \in DOMAIN aquariums :
               LET c == aquariums[i].cleanliness
                   c2 == aquariums'[i].cleanliness
                   decay == ((18 * Scale) \div 100) * last'.minutes
               IN /\ c2 = IF c - decay >= 0 THEN c - decay ELSE 0
                  /\ c > 0 => c2 < c
                  /\ StoredCleanliness(database', aquariums[i].id, c2)
         /\ ticked_aquarium(C7_Example, 50).cleanliness = 76 * Scale
      ]_vars

\* the seeded aquarium (cleanliness 85) after a tick of 60 minutes: 74.2
C7_Witness ==
    /\ last.op = "tick" /\ last.ok /\ last.minutes = 60
    /\ \E i \in DOMAIN aquariums :
          /\ aquariums[i].cleanliness = 85 * Scale - 10800
          /\ StoredCleanliness(database, aquariums[i].id, 85 * Scale - 10800)

\* C8: a tick with elapsed minutes D > 0 moves each aquarium's current
\* temperature strictly toward its target without overshooting: when current
\* differs from target the distance shrinks strictly, current stays on the
\* same side, and it does not reach the target.
C8_TemperatureStrict ==
    [][(last'.op = "tick" /\ last'.ok /\ last'.minutes > 0) =>
         \A i \in DOMAIN aquariums :
            LET cur == aquariums[i].current_temperature
                tgt == aquariums[i].target_temperature
                cur2 == aquariums'[i].current_temperature
            IN /\ cur < tgt => (cur < cur2 /\ cur2 < tgt)
               /\ cur > tgt => (cur > cur2 /\ cur2 > tgt)
               /\ cur = tgt => cur2 = tgt
      ]_vars

\* the stored hunger of the fish row with this id, if there is such a row
StoredHunger(db, id, h) == \A r \in db.fish : r.id = id => r.hunger = h
StoredHealth(db, id, h) == \A r \in db.fish : r.id = id => r.health = h

\* C9: a tick with elapsed minutes D > 0 sets every fish's hunger to
\* min(100, hunger + 0.45 * D), in the engine and in its store row; hunger
\* never decreases in a tick and never exceeds 100.
C9_TickHunger ==
    [][(last'.op = "tick" /\ last'.ok /\ last'.minutes > 0) =>
         /\ DOMAIN fish' = DOMAIN fish
         /\ \A k \in DOMAIN fish :
              /\ Len(fish'[k]) = Len(fish[k])
              /\ \A j \in DOMAIN fish[k] :
                    LET h == fish[k][j].hunger
                        h2 == fish'[k][j].hunger
                        grown == h + ((45 * Scale) \div 100) * last'.minutes
                    IN /\ h2 = IF grown <= 100 * Scale THEN grown ELSE 100 * Scale
                       /\ h2 >= h
                       /\ h2 <= 100 * Scale
                       /\ StoredHunger(database', fish[k][j].id, h2)
      ]_vars

\* a tick has just taken a fish's hunger to the cap, in engine and store
C9_Witness ==
    /\ last.op = "tick" /\ last.ok /\ last.minutes > 0
    /\ \E f \in AllCachedFish :
          /\ f.hunger = 100 * Scale
          /\ \E r \in database.fish : r.id = f.id /\ r.hunger = 100 * Scale

\* C10: a tick with elapsed minutes D > 0 reduces every fish's health by the
\* sum of (hunger - 70) * 0.02 * D when hunger > 70, (gap - 2.5) * 0.5 * D when
\* the temperature gap exceeds 2.5 and (40 - cleanliness) * 0.01 * D when
\* cleanliness < 40, clamped to [10, 100], where hunger, gap and cleanliness
\* are the values the tick has just computed; with none of the three active
\* the health is unchanged.
C10_TickHealth ==
    [][(last'.op = "tick" /\ last'.ok /\ last'.minutes > 0) =>
         \A i \in DOMAIN aquariums' :
            LET a2 == aquariums'[i]
                D == last'.minutes
                gap == Abs(a2.current_temperature - a2.target_temperature)
            IN \A j \in DOMAIN Get(fish, a2.id) :
                  LET f == fish[a2.id][j]
                      f2 == fish'[a2.id][j]
                      s1 == IF f2.hunger > 70 * Scale
                            THEN Round((f2.hunger - 70 * Scale) * 2, 100) * D ELSE 0
                      s2 == IF 2 * gap > 5 * Scale
                            THEN Round((2 * gap - 5 * Scale) * 5, 20) * D ELSE 0
                      s3 == IF a2.cleanliness < 40 * Scale
                            THEN Round(40 * Scale - a2.cleanliness, 100) * D ELSE 0
                      h == f.health - (s1 + s2 + s3)
                      clamped == IF h < 10 * Scale THEN 10 * Scale
                                 ELSE IF h > 100 * Scale THEN 100 * Scale ELSE h
                  IN /\ f2.health = clamped
                     /\ StoredHealth(database', f.id, clamped)
                     /\ (s1 + s2 + s3 = 0) => f2.health = f.health
                     /\ (f2.hunger <= 70 * Scale /\ 2 * gap <= 5 * Scale
                           /\ a2.cleanliness >= 40 * Scale) => f2.health = f.health
      ]_vars

\* a seeded fish (hunger 45, health 82) after a tick of 60 minutes: hunger 72,
\* penalty 2 * 0.02 * 60 = 2.4, health 79.6
C10_Witness ==
    /\ last.op = "tick" /\ last.ok /\ last.minutes = 60
    /\ \E f \in AllCachedFish :
          /\ f.hunger = 72 * Scale
          /\ f.health = 82 * Scale - 2400
          /\ \E r \in database.fish : r.id = f.id /\ r.health = 82 * Scale - 2400

\* the rows of one aquarium in the store: its own row, its fish rows
AquariumRows(db, id) == {r \in db.aquariums : r.id = id}
FishRows(db, id) == {r \in db.fish : r.aquarium_id = id}

\* what a tick of D minutes must leave of a cleanliness c and of a hunger h
Decayed(c, D) ==
    LET d == ((18 * Scale) \div 100) * D IN IF c - d >= 0 THEN c - d ELSE 0
Grown(h, D) ==
    LET g == h + ((45 * Scale) \div 100) * D IN IF g <= 100 * Scale THEN g ELSE 100 * Scale

\* C11: tick() with zero or negative elapsed time since the last tick or
\* reload changes no aquarium, fish or task in the engine or the store and
\* leaves the last-tick timestamp as it was; so a second tick() with no time
\* elapsed after a first one changes nothing.
C11_TickNoOp ==
    [][(last'.op = "tick" /\ now - last_tick <= 0) =>
          /\ last'.ok
          /\ UNCHANGED <<database, aquariums, fish, tasks, last_tick>>]_vars

\* a second tick() with zero elapsed time, right after a tick of 60 minutes
\* on the seeded aquarium
C11_Witness ==
    /\ last.op = "tick" /\ last.ok /\ last.minutes = 0
    /\ calls = 2 /\ now = 60 /\ last_tick = 60
    /\ \E i \in DOMAIN aquariums : aquariums[i].cleanliness = 85 * Scale - 10800

\* C12: the first tick that completes after a tick that failed partway
\* leaves every aquarium's cleanliness and every fish's hunger as if each
\* minute of wall-clock time since the last completed tick had been applied
\* to it exactly once.
C12_Rederived ==
    [][(last.op = "tick" /\ ~last.ok /\ last'.op = "tick" /\ last'.ok) =>
          LET D == now' - last_tick
              b == last.before
          IN /\ \A i \in DOMAIN b.aquariums :
                   aquariums'[i].cleanliness = Decayed(b.aquariums[i].cleanliness, D)
             /\ \A k \in DOMAIN b.fish : \A j \in DOMAIN b.fish[k] :
                   fish'[k][j].hunger = Grown(b.fish[k][j].hunger, D)]_vars

\* C13: when a store write raises while tick() processes the k-th aquarium,
\* tick() raises and does not retry: the rows of the aquariums before k hold
\* their new values, the aquarium row of k and the rows of the aquariums after
\* k are as they were, and the last-tick timestamp is not advanced.
C13_FailedTick ==
    [][(last'.op = "tick" /\ ~last'.ok) =>
          LET k == last'.id
              D == last'.minutes
          IN /\ last_tick' = last_tick
             /\ \A i \in DOMAIN aquariums :
                  LET id == aquariums[i].id
                  IN /\ i < k =>
                          /\ StoredCleanliness(database', id,
                                               Decayed(aquariums[i].cleanliness, D))
                          /\ \A j \in DOMAIN Get(fish, id) :
                                StoredHunger(database', fish[id][j].id,
                                             Grown(fish[id][j].hunger, D))
                     /\ i = k => AquariumRows(database', id) = AquariumRows(database, id)
                     /\ i > k =>
                          /\ AquariumRows(database', id) = AquariumRows(database, id)
                          /\ FishRows(database', id) = FishRows(database, id)]_vars

\* a tick of two aquariums has failed at the second: the first one's row
\* holds its new cleanliness, the second one's row the old one
C13_Witness ==
    /\ last.op = "tick" /\ ~last.ok /\ last.id = 2
    /\ Len(aquariums) = 2
    /\ last_tick < now
    /\ aquariums[1].cleanliness < last.before.aquariums[1].cleanliness
    /\ StoredCleanliness(database, aquariums[1].id, aquariums[1].cleanliness)
    /\ aquariums[2].cleanliness < last.before.aquariums[2].cleanliness
    /\ StoredCleanliness(database, aquariums[2].id, last.before.aquariums[2].cleanliness)

\* C14: a tick() that completes with elapsed minutes D > 0 applies the same D
\* to every aquarium of the engine and its fish, persists them, and advances
\* the last-tick timestamp to now; a tick() that a store write interrupts has
\* not advanced it, has not written the aquarium row it was processing, and
\* has written that aquarium's fish rows exactly when the write that raised is
\* the one of the aquarium row (the fish batch goes first).
C14_TickOrder ==
    [][/\ (last'.op = "tick" /\ last'.ok /\ last'.minutes > 0) =>
            LET D == now' - last_tick
            IN /\ last'.minutes = D
               /\ Len(aquariums') = Len(aquariums)
               /\ \A i \in DOMAIN aquariums :
                     LET id == aquariums[i].id
                         c2 == Decayed(aquariums[i].cleanliness, D)
                     IN /\ aquariums'[i].cleanliness = c2
                        /\ StoredCleanliness(database', id, c2)
                        /\ \A j \in DOMAIN Get(fish, id) :
                              /\ fish'[id][j].hunger = Grown(fish[id][j].hunger, D)
                              /\ StoredHunger(database', fish[id][j].id,
                                              Grown(fish[id][j].hunger, D))
               /\ last_tick' = now'
       /\ (last'.op = "tick" /\ ~last'.ok) =>
            LET id == aquariums[last'.id].id
                D == last'.minutes
            IN /\ last_tick' = last_tick
               /\ AquariumRows(database', id) = AquariumRows(database, id)
               /\ last'.at = "upsert_aquarium" =>
                     \A j \in DOMAIN Get(fish, id) :
                        StoredHunger(database', fish[id][j].id, Grown(fish[id][j].hunger, D))
               /\ last'.at = "update_fish" => FishRows(database', id) = FishRows(database, id)
      ]_vars

\* a tick of 60 minutes has completed on the seeded aquarium (85 -> 74.2) and
\* on a created one (90 -> 79.2)
C14_Witness ==
    /\ last.op = "tick" /\ last.ok /\ last.minutes = 60
    /\ Len(aquariums) = 2
    /\ last_tick = now
    /\ StoredCleanliness(database, aquariums[1].id, 85 * Scale - 10800)
    /\ StoredCleanliness(database, aquariums[2].id, 90 * Scale - 10800)

\* C15: after cleanAquarium(id) returns for an aquarium of the engine, its
\* cleanliness is 100 and its last-cleaned time is the call time, in the
\* engine and in the store row, whose timestamp reads back as the same value.
C15_Cleaned ==
    (last.op = "clean_aquarium" /\ last.ok /\ last.aq \in CachedIds) =>
        LET a == aquariums[FirstWithId(aquariums, last.aq)]
        IN /\ a.cleanliness = 100 * Scale
           /\ a.last_cleaned_at = now
           /\ \E r \in database.aquariums : r.id = last.aq
           /\ \A r \in database.aquariums : r.id = last.aq =>
                 /\ r.cleanliness = 100 * Scale
                 /\ fromisoformat(r.last_cleaned_at) = a.last_cleaned_at

\* cleanAquarium has returned at a time after the start of the run
C15_Witness ==
    /\ last.op = "clean_aquarium" /\ last.ok /\ last.aq \in CachedIds
    /\ now > 0
    /\ LET a == aquariums[FirstWithId(aquariums, last.aq)]
       IN /\ a.cleanliness = 100 * Scale /\ a.last_cleaned_at = now
          /\ \E r \in database.aquariums :
                r.id = last.aq /\ r.cleanliness = 100 * Scale
                               /\ r.last_cleaned_at = isoformat(now)

\* C16: in every outcome of cleanAquarium(id) on an aquarium of the engine,
\* a raised store write included, either both the engine's aquarium and its
\* store row have cleanliness 100 and the call time as last-cleaned, or
\* neither has changed.
C16_CleanAtomic ==
    [][last'.op = "clean_aquarium" =>
          LET i == FirstWithId(aquariums, last'.aq)
          IN i # 0 =>
               \/ /\ aquariums'[i].cleanliness = 100 * Scale
                  /\ aquariums'[i].last_cleaned_at = now'
                  /\ \E r \in database'.aquariums :
                        /\ r.id = last'.aq
                        /\ r.cleanliness = 100 * Scale
                        /\ fromisoformat(r.last_cleaned_at) = now'
               \/ /\ aquariums' = aquariums
                  /\ database' = database]_vars

\* C17: after reload(), from any state, the engine's collections equal the
\* store's aquariums, fish and tasks exactly and the last-tick timestamp is
\* the reload time, so a tick finds no elapsed time from before the reload.
C17_Reload ==
    last.op = "reload" =>
        /\ CacheEqualsStore
        /\ DOMAIN fish = CachedIds
        /\ DOMAIN tasks = CachedIds
        /\ last_tick = now
        /\ now - last_tick <= 0

\* reload() has run on an engine whose aquariums a failed store write had
\* left different from the store
C17_Witness ==
    /\ last.op = "reload"
    /\ last.before.aquariums # db_aquariums(database)
    /\ aquariums = db_aquariums(database)
    /\ now > 0 /\ last_tick = now

\* the operations that take an aquarium id
C18_Ops ==
    {"feed_fish", "clean_aquarium", "adjust_temperature", "create_fish", "add_task",
     "remove_fish"}

\* C18: feedFish, cleanAquarium, adjustTemperature, createFish, addTask and
\* removeFish called with an aquarium id the engine does not hold raise
\* instead of returning.
C18_NotFound ==
    [][(last'.op \in C18_Ops /\ last'.aq \notin CachedIds) => ~last'.ok]_vars

\* C19: after removeFish(fishId, aquariumId) returns, for any arguments, no
\* fish with id fishId is in any of the engine's fish lists nor in the store.
C19_RemoveFish ==
    (last.op = "remove_fish" /\ last.ok) =>
        /\ \A f \in AllCachedFish : f.id # last.id
        /\ \A r \in database.fish : r.id # last.id

\* C20: after markTaskDone(task) returns, the task has an identity (for a
\* task passed without one, the one the store assigned to the row inserted
\* for it), and its last run is the call time in the task object and in its
\* store row.
C20_MarkTaskDone ==
    (last.op = "mark_task_done" /\ last.ok) =>
        /\ last.task.id # None
        /\ last.task.last_run_at = now
        /\ ~last.cached => last.task.id = database.seq.tasks
        /\ last.cached => last.task = TaskWithId(tasks, last.aq, last.id)
        /\ Cardinality({r \in database.tasks : r.id = last.task.id}) = 1
        /\ \A r \in database.tasks : r.id = last.task.id =>
              /\ fromisoformat(r.last_run_at) = now
              /\ r.aquarium_id = last.task.aquarium_id
              /\ r.kind = last.task.kind

\* markTaskDone has returned for a task the caller built without an id
C20_Witness ==
    /\ last.op = "mark_task_done" /\ last.ok /\ ~last.cached
    /\ last.task.kind \in OwnKindSet
    /\ last.task.id = database.seq.tasks
    /\ last.task.last_run_at = now
    /\ \E r \in database.tasks : r.id = last.task.id /\ r.last_run_at = isoformat(now)
    /\ \A t \in AllCachedTasks : t.id # last.task.id

\* the ids of a set of rows
Ids(rows) == {r.id : r \in rows}

\* C21: in each table the ids are unique, and a row that appears in a step
\* has an id above every id the table has ever assigned (its sqlite_sequence
\* value, which never decreases), so an id freed by a delete or a cascade is
\* not assigned again.
C21_Identities ==
    [][/\ Cardinality(Ids(database'.aquariums)) = Cardinality(database'.aquariums)
       /\ Cardinality(Ids(database'.fish)) = Cardinality(database'.fish)
       /\ Cardinality(Ids(database'.tasks)) = Cardinality(database'.tasks)
       /\ database'.seq.aquariums >= database.seq.aquariums
       /\ database'.seq.fish >= database.seq.fish
       /\ database'.seq.tasks >= database.seq.tasks
       /\ \A id \in Ids(database'.aquariums) \ Ids(database.aquariums) :
             id > database.seq.aquariums /\ id <= database'.seq.aquariums
       /\ \A id \in Ids(database'.fish) \ Ids(database.fish) :
             id > database.seq.fish /\ id <= database'.seq.fish
       /\ \A id \in Ids(database'.tasks) \ Ids(database.tasks) :
             id > database.seq.tasks /\ id <= database'.seq.tasks]_vars

\* an aquarium created after aquarium 1 and its fish and tasks were deleted:
\* it has id 2
C21_Witness ==
    /\ last.op = "create_aquarium" /\ last.ok
    /\ Ids(database.aquariums) = {2}
    /\ database.seq.fish >= 3 /\ database.fish = {}
    /\ database.seq.tasks >= 3 /\ database.tasks = {}

\* C22: in every reachable state every fish row and every task row references
\* an aquarium row that exists; a createFish, addTask or markTaskDone that
\* raised for a missing aquarium has left no row for it, and after
\* deleteAquarium neither the aquarium row nor any row referencing it is left.
C22_ReferentialIntegrity ==
    /\ \A r \in database.fish : r.aquarium_id \in Ids(database.aquariums)
    /\ \A r \in database.tasks : r.aquarium_id \in Ids(database.aquariums)
    /\ (last.op \in {"create_fish", "add_task", "mark_task_done"} /\ ~last.ok) =>
          /\ last.aq \notin Ids(database.aquariums)
          /\ \A r \in database.fish : r.aquarium_id # last.aq
          /\ \A r \in database.tasks : r.aquarium_id # last.aq
    /\ last.op = "delete_aquarium" =>
          /\ last.aq \notin Ids(database.aquariums)
          /\ \A r \in database.fish : r.aquarium_id # last.aq
          /\ \A r \in database.tasks : r.aquarium_id # last.aq

\* createFish for an aquarium that does not exist has raised, next to an
\* aquarium that has fish
C22_Witness ==
    /\ last.op = "create_fish" /\ ~last.ok
    /\ last.aq \notin Ids(database.aquariums)
    /\ database.fish # {}
    /\ \A r \in database.fish : r.aquarium_id # last.aq

\* the same task: identity, kind, interval and aquarium
SameTask(t, u) ==
    /\ t.id = u.id /\ t.kind = u.kind
    /\ t.interval_minutes = u.interval_minutes /\ t.aquarium_id = u.aquarium_id

\* C23: a task that is in the store and in the engine stays in both, with the
\* same identity, kind, interval and aquarium, over every step that is not
\* the deletion of its aquarium.
C23_TasksStay ==
    [][\A t \in AllCachedTasks :
          ((\E r \in database.tasks : SameTask(r, t))
             /\ ~(last'.op = "delete_aquarium" /\ last'.aq = t.aquarium_id))
          => /\ \E r \in database'.tasks : SameTask(r, t)
             /\ \E u \in Values(tasks') : SameTask(u, t)]_vars

\* markTaskDone has run as the second call on one of the three seeded tasks,
\* all of which are still in the engine and in the store
C23_Witness ==
    /\ last.op = "mark_task_done" /\ last.cached /\ calls = 2
    /\ \A id \in {1, 2, 3} :
          /\ \E r \in database.tasks : r.id = id
          /\ \E t \in AllCachedTasks : t.id = id

\* C24: createAquarium(name, target) returns an aquarium with an id the store
\* has not assigned before, the name and target given, current temperature =
\* target, cleanliness 90 and last-cleaned = call time; it is appended to the
\* engine's list, its row is the one row added to the store, and the engine
\* holds an empty fish list and an empty task list for it.
C24_CreateAquarium ==
    [][(last'.op = "create_aquarium" /\ last'.ok) =>
          LET a == last'.ret
          IN /\ a.id # None
             /\ a.id \notin Ids(database.aquariums)
             /\ a.id > database.seq.aquariums
             /\ a.name = last'.arg.name
             /\ a.target_temperature = last'.arg.target_temperature
             /\ a.current_temperature = last'.arg.target_temperature
             /\ a.cleanliness = 90 * Scale
             /\ a.last_cleaned_at = now'
             /\ aquariums' = Append(aquariums, a)
             /\ database'.aquariums = database.aquariums \cup {AquariumRow(a)}
             /\ db_aquariums(database')[Len(db_aquariums(database'))] = a
             /\ database'.fish = database.fish /\ database'.tasks = database.tasks
             /\ a.id \in DOMAIN fish' /\ fish'[a.id] = <<>>
             /\ a.id \in DOMAIN tasks' /\ tasks'[a.id] = <<>>
             /\ \A k \in DOMAIN fish : k # a.id => fish'[k] = fish[k]
             /\ \A k \in DOMAIN tasks : k # a.id => tasks'[k] = tasks[k]]_vars

\* a second aquarium has been created an hour into the run
C24_Witness ==
    /\ last.op = "create_aquarium" /\ last.ok
    /\ now = 60
    /\ Len(aquariums) = 2 /\ aquariums[2] = last.ret
    /\ last.ret.id = 2 /\ last.ret.last_cleaned_at = 60
    /\ AquariumRow(last.ret) \in database.aquariums
    /\ fish[2] = <<>> /\ tasks[2] = <<>>

\* an aquarium at 25 degrees with target 25
C25_Example ==
    [id |-> 1, name |-> "Sala Verde", target_temperature |-> 25 * Scale,
     current_temperature |-> 25 * Scale, cleanliness |-> 90 * Scale,
     last_cleaned_at |-> 0]

\* C25: a tick, of any elapsed time, leaves the current temperature of an
\* aquarium whose current temperature equals its target equal to the target,
\* in the engine and in the row it writes; created with target 25, an
\* aquarium is at 25 after a tick of 18 minutes.
C25_FixedPoint ==
    [][last'.op = "tick" =>
          /\ Len(aquariums') = Len(aquariums)
          /\ \A i \in DOMAIN aquariums :
                aquariums[i].current_temperature = aquariums[i].target_temperature =>
                   /\ aquariums'[i].target_temperature = aquariums[i].target_temperature
                   /\ aquariums'[i].current_temperature = aquariums[i].target_temperature
                   /\ (last'.ok /\ last'.minutes > 0) =>
                         \A r \in database'.aquariums : r.id = aquariums[i].id =>
                            r.current_temperature = aquariums[i].target_temperature
          /\ ticked_aquarium(C25_Example, 18).current_temperature = 25 * Scale]_vars

\* a tick of 60 minutes has run on the seeded aquarium, whose temperature is
\* still the 25 degrees of its target
C25_Witness ==
    /\ last.op = "tick" /\ last.ok /\ last.minutes = 60
    /\ \E i \in DOMAIN aquariums :
          /\ aquariums[i].cleanliness = 85 * Scale - 10800
          /\ aquariums[i].target_temperature = 25 * Scale
          /\ aquariums[i].current_temperature = 25 * Scale
          /\ \E r \in database.aquariums :
                r.id = aquariums[i].id /\ r.current_temperature = 25 * Scale

\* C26: adjustTemperature(id, newTarget) on an aquarium of the engine changes
\* its target temperature and nothing else: every other field of it, every
\* other aquarium, the fish and the tasks are unchanged in the engine and in
\* the store, and the store row holds the new target.
C26_AdjustFrame ==
    [][(last'.op = "adjust_temperature" /\ last'.aq \in CachedIds) =>
          LET i == FirstWithId(aquariums, last'.aq)
          IN /\ aquariums' = [aquariums EXCEPT ![i].target_temperature = last'.arg]
             /\ fish' = fish /\ tasks' = tasks
             /\ database'.fish = database.fish /\ database'.tasks = database.tasks
             /\ database'.aquariums =
                   {IF r.id = last'.aq THEN [r EXCEPT !.target_temperature = last'.arg]
                    ELSE r : r \in database.aquariums}]_vars

\* C27: createFish(aquariumId, name, species) on an aquarium that exists
\* returns a fish with an id the store has not assigned before, hunger 35,
\* health 95, created at the call time and owned by aquariumId; its row is the
\* one row added to the store, it is the last of that aquarium's fish list,
\* and no other fish changes.
C27_CreateFish ==
    [][(last'.op = "create_fish" /\ last'.ok) =>
          LET f == last'.ret
              a == last'.aq
          IN /\ a \in Ids(database.aquariums)
             /\ f.id # None
             /\ f.id \notin Ids(database.fish)
             /\ f.id > database.seq.fish
             /\ f.aquarium_id = a
             /\ f.hunger = 35 * Scale /\ f.health = 95 * Scale
             /\ f.created_at = now'
             /\ fish'[a] = Append(Get(fish, a), f)
             /\ DOMAIN fish' = DOMAIN fish \cup {a}
             /\ \A k \in DOMAIN fish : k # a => fish'[k] = fish[k]
             /\ database'.fish = database.fish \cup {FishRow(f)}
             /\ FishOf(FishRow(f)) = f
             /\ database'.aquariums = database.aquariums
             /\ database'.tasks = database.tasks]_vars

\* a fourth fish has been created in the seeded aquarium
C27_Witness ==
    /\ last.op = "create_fish" /\ last.ok
    /\ last.ret.id = 4
    /\ Len(Get(fish, last.aq)) = 4
    /\ fish[last.aq][4] = last.ret
    /\ fish[last.aq][1].id = 1
    /\ FishRow(last.ret) \in database.fish

\* C28: upsertAquarium of an aquarium without id adds one row and returns the
\* aquarium with the id of that row, an id the store has not assigned before;
\* with an id it returns its argument, and the row with that id, if there is
\* one, holds the argument's fields while every other row is unchanged; with
\* an id that no row has, the call returns without raising and the table is
\* unchanged. Fish and tasks are unchanged in every case.
C28_UpsertAquarium ==
    [][last'.op = "Database.upsert_aquarium" =>
          LET a == last'.arg
              r == last'.ret
          IN /\ last'.ok
             /\ database'.fish = database.fish /\ database'.tasks = database.tasks
             /\ a.id = None =>
                   /\ r.id # None
                   /\ r.id \notin Ids(database.aquariums)
                   /\ r.id > database.seq.aquariums
                   /\ r = [a EXCEPT !.id = r.id]
                   /\ database'.aquariums = database.aquariums \cup {AquariumRow(r)}
                   /\ Cardinality(database'.aquariums) =
                         Cardinality(database.aquariums) + 1
             /\ a.id # None =>
                   /\ r = a
                   /\ Ids(database'.aquariums) = Ids(database.aquariums)
                   /\ \A row \in database.aquariums :
                         IF row.id = a.id
                         THEN AquariumRow(a) \in database'.aquariums
                         ELSE row \in database'.aquariums
             /\ (a.id # None /\ a.id \notin Ids(database.aquariums)) =>
                   database' = database]_vars

\* upsertAquarium with id 2 has returned on a store whose only row, the
\* seeded one, has id 1
C28_Witness ==
    /\ last.op = "Database.upsert_aquarium" /\ last.ok
    /\ last.arg.id = 2 /\ last.ret = last.arg
    /\ Ids(database.aquariums) = {1}
    /\ \A r \in database.aquariums : r.name = "Aquario Principal"

\* the tasks of the store that dueTasks() of an engine loaded at t returns
C29_Due(db, t) ==
    LET d == due_tasks_from(reload_aquariums(db), reload_tasks(db), t, 1)
    IN {d[j][1].id : j \in DOMAIN d}

\* C29: ensure_defaults on a store without aquarium rows leaves exactly one
\* aquarium row, three fish rows and three task rows, all of that aquarium,
\* and every one of the tasks is due at once; on a store with an aquarium row
\* it changes nothing; in both cases a second call changes nothing.
C29_SeedDefaults ==
    [][last'.op = "Database.ensure_defaults" =>
          /\ IF database.aquariums = {}
             THEN /\ Cardinality(database'.aquariums) = 1
                  /\ Cardinality(database'.fish) = 3
                  /\ Cardinality(database'.tasks) = 3
                  /\ \A a \in database'.aquariums :
                        /\ a.id \notin Ids(database.aquariums)
                        /\ a.id > database.seq.aquariums
                        /\ \A f \in database'.fish : f.aquarium_id = a.id
                        /\ \A t \in database'.tasks : t.aquarium_id = a.id
                  /\ C29_Due(database', now') = Ids(database'.tasks)
             ELSE database' = database
          /\ \A d \in StoreElapsedSet :
                db_ensure_defaults(database', now' + d) = database']_vars

\* ensure_defaults has run a second time, an hour after the first: the rows
\* are the ones the first call wrote
C29_Witness ==
    /\ last.op = "Database.ensure_defaults" /\ calls = 2
    /\ now = 60
    /\ database = seeded(EmptyDatabase, 0)

\* the last fish of a list that has the id, as update_fish applies them in order
C30_Last(fishes, id) ==
    LET I == {i \in DOMAIN fishes : fishes[i].id = id}
    IN fishes[CHOOSE i \in I : \A j \in I : j <= i]

\* C30: update_fish(fishes) leaves the set of fish ids, and the name,
\* species, aquarium and creation time of every fish row, as they were; a row
\* whose id no fish of the list has is unchanged, a fish without id changes no
\* row, and a row whose id is in the list gets the hunger and health of the
\* last such fish. Aquariums and tasks are unchanged.
C30_UpdateFish ==
    [][last'.op = "Database.update_fish" =>
          LET fishes == last'.arg
              named == {fishes[i].id : i \in DOMAIN fishes} \ {None}
          IN /\ database'.aquariums = database.aquariums
             /\ database'.tasks = database.tasks
             /\ database'.seq = database.seq
             /\ Ids(database'.fish) = Ids(database.fish)
             /\ Cardinality(database'.fish) = Cardinality(database.fish)
             /\ \A r \in database.fish :
                   IF r.id \in named
                   THEN [r EXCEPT !.hunger = C30_Last(fishes, r.id).hunger,
                                  !.health = C30_Last(fishes, r.id).health]
                           \in database'.fish
                   ELSE r \in database'.fish]_vars

\* update_fish has run with a fish without id and a fish with id 2, whose
\* name, species and aquarium are not those of row 2: row 2 has the new
\* hunger and health and its own name
C30_Witness ==
    /\ last.op = "Database.update_fish"
    /\ Len(last.arg) = 2 /\ last.arg[1].id = None /\ last.arg[2].id = 2
    /\ \E r \in database.fish :
          /\ r.id = 2 /\ r.name = "Bolhas" /\ r.aquarium_id = 1
          /\ r.hunger = 10000 /\ r.health = 20000
    /\ \E r \in database.fish : r.id = 1 /\ r.hunger = SeedHunger

C36_TickFrame ==
    [][last'.op = "tick" =>
          /\ Len(aquariums') = Len(aquariums)
          /\ \A i \in DOMAIN aquariums :
                aquariums'[i] =
                   [aquariums[i] EXCEPT
                      !.current_temperature = aquariums'[i].current_temperature,
                      !.cleanliness = aquariums'[i].cleanliness]
          /\ DOMAIN fish' = DOMAIN fish
          /\ \A k \in DOMAIN fish :
                /\ Len(fish'[k]) = Len(fish[k])
                /\ \A j \in DOMAIN fish[k] :
                      fish'[k][j] = [fish[k][j] EXCEPT !.hunger = fish'[k][j].hunger,
                                                        !.health = fish'[k][j].health]
          /\ tasks' = tasks
          /\ database'.tasks = database.tasks
          /\ database'.seq = database.seq
          /\ Ids(database'.aquariums) = Ids(database.aquariums)
          /\ Ids(database'.fish) = Ids(database.fish)
          /\ \A r \in database.aquariums : \E q \in database'.aquariums :
                q = [r EXCEPT !.current_temperature = q.current_temperature,
                              !.cleanliness = q.cleanliness]
          /\ \A r \in database.fish : \E q \in database'.fish :
                q = [r EXCEPT !.hunger = q.hunger, !.health = q.health]]_vars

\* C37: feedFish, cleanAquarium and adjustTemperature, returned or raised,
\* leave the aquariums with another id, their fish and all tasks unchanged in
\* the engine and in the store; called with an id that no aquarium of the
\* engine has, they leave the engine and the store as they were.
C37_OthersUnchanged ==
    [][last'.op \in {"feed_fish", "clean_aquarium", "adjust_temperature"} =>
          LET a == last'.aq
          IN /\ Len(aquariums') = Len(aquariums)
             /\ \A i \in DOMAIN aquariums :
                   aquariums[i].id # a => aquariums'[i] = aquariums[i]
             /\ DOMAIN fish' = DOMAIN fish
             /\ \A k \in DOMAIN fish : k # a => fish'[k] = fish[k]
             /\ tasks' = tasks
             /\ last_tick' = last_tick
             /\ {r \in database'.aquariums : r.id # a}
                   = {r \in database.aquariums : r.id # a}
             /\ {r \in database'.fish : r.aquarium_id # a}
                   = {r \in database.fish : r.aquarium_id # a}
             /\ database'.tasks = database.tasks
             /\ database'.seq = database.seq
             /\ a \notin CachedIds =>
                   /\ database' = database
                   /\ aquariums' = aquariums /\ fish' = fish]_vars

\* cleanAquarium(1) has run at minute 60 next to a second aquarium, which
\* still has the cleanliness 90 and the last-cleaned time of its creation
C37_Witness ==
    /\ last.op = "clean_aquarium" /\ last.ok /\ last.aq = 1
    /\ now = 60
    /\ Len(aquariums) = 2
    /\ aquariums[1].id = 1 /\ aquariums[1].cleanliness = Full
    /\ aquariums[2].id = 2 /\ aquariums[2].cleanliness = NewCleanliness
    /\ \E r \in database.aquariums : r.id = 2 /\ r.cleanliness = NewCleanliness
    /\ \E r \in database.aquariums : r.id = 1 /\ r.cleanliness = Full

\* C38: a createAquarium, createFish or addTask whose store write raises
\* leaves the engine's collections, its last-tick time and the store as they
\* were; createFish and addTask raise whenever the aquarium has no row.
C38_StoreFirst ==
    [][last'.op \in {"create_aquarium", "create_fish", "add_task"} =>
          /\ ~last'.ok =>
                /\ aquariums' = aquariums /\ fish' = fish /\ tasks' = tasks
                /\ last_tick' = last_tick
                /\ database' = database
          /\ (last'.op # "create_aquarium" /\ last'.aq \notin Ids(database.aquariums))
                => ~last'.ok]_vars

\* addTask for aquarium 2, which has no row, has raised: the engine holds the
\* three seeded tasks under key 1 and no key 2
C38_Witness ==
    /\ last.op = "add_task" /\ ~last.ok /\ last.aq = 2
    /\ 2 \notin Ids(database.aquariums)
    /\ DOMAIN tasks = {1} /\ Len(tasks[1]) = 3
    /\ Cardinality(database.tasks) = 3

\* C39: once the engine is built, the keys of its fish map and of its task
\* map are the ids of the aquariums in its list, every fish and task under
\* key A belongs to aquarium A, and no fish id and no task id occurs twice.
C39_CacheStructure ==
    phase = "running" =>
       /\ DOMAIN fish = CachedIds
       /\ DOMAIN tasks = CachedIds
       /\ \A k \in DOMAIN fish : \A j \in DOMAIN fish[k] : fish[k][j].aquarium_id = k
       /\ \A k \in DOMAIN tasks : \A j \in DOMAIN tasks[k] : tasks[k][j].aquarium_id = k
       /\ \A k1 \in DOMAIN fish, k2 \in DOMAIN fish :
             \A i \in DOMAIN fish[k1], j \in DOMAIN fish[k2] :
                fish[k1][i].id = fish[k2][j].id => (k1 = k2 /\ i = j)
       /\ \A k1 \in DOMAIN tasks, k2 \in DOMAIN tasks :
             \A i \in DOMAIN tasks[k1], j \in DOMAIN tasks[k2] :
                tasks[k1][i].id = tasks[k2][j].id => (k1 = k2 /\ i = j)

\* C40: deleteAquarium(id) leaves the aquariums with another id, and the
\* fish and tasks of those, as they were in the engine and in the store, and
\* sets the last-tick time to the time of the call.
C40_DeleteFrame ==
    [][last'.op = "delete_aquarium" =>
          LET a == last'.aq
              Others(aqs) == SelectSeq(aqs, LAMBDA x : x.id # a)
          IN /\ Others(aquariums') = Others(aquariums)
             /\ \A k \in CachedIds \ {a} :
                   /\ k \in DOMAIN fish' /\ fish'[k] = Get(fish, k)
                   /\ k \in DOMAIN tasks' /\ tasks'[k] = Get(tasks, k)
             /\ {r \in database'.aquariums : r.id # a}
                   = {r \in database.aquariums : r.id # a}
             /\ {r \in database'.fish : r.aquarium_id # a}
                   = {r \in database.fish : r.aquarium_id # a}
             /\ {r \in database'.tasks : r.aquarium_id # a}
                   = {r \in database.tasks : r.aquarium_id # a}
             /\ last_tick' = now]_vars

\* an entity is among those its list accessor returns
Listed(db, kind, e) ==
    LET l == IF kind = "aquarium" THEN db_aquariums(db)
             ELSE IF kind = "fish" THEN fish_for_aquarium(db, e.aquarium_id)
             ELSE tasks_for_aquarium(db, e.aquarium_id)
    IN \E i \in DOMAIN l : l[i] = e

\* C32: after upsertAquarium, insertFish or upsertTask has written a row (an
\* insert, or an update of an id that has a row), the list accessor returns an
\* entity equal field for field to the one the call returned.
C32_RoundTrip ==
    [][/\ (last'.op = "Database.upsert_aquarium"
             /\ (last'.arg.id = None \/ last'.arg.id \in Ids(database.aquariums)))
          => Listed(database', "aquarium", last'.ret)
       /\ (last'.op = "Database.insert_fish" /\ last'.ok)
          => Listed(database', "fish", last'.ret)
       /\ (last'.op = "Database.upsert_task" /\ last'.ok
             /\ (last'.arg.id = None \/ last'.arg.id \in Ids(database.tasks)))
          => Listed(database', "task", last'.ret)]_vars

\* C32 as amended: the same for upsertAquarium, insertFish and the insert of
\* upsertTask; after upsertTask on an id that has a row, the task read back
\* under that id has the interval and the last run written, and the kind and
\* the aquarium the row had.
C32_RoundTripAmended ==
    [][/\ (last'.op = "Database.upsert_aquarium"
             /\ (last'.arg.id = None \/ last'.arg.id \in Ids(database.aquariums)))
          => Listed(database', "aquarium", last'.ret)
       /\ (last'.op = "Database.insert_fish" /\ last'.ok)
          => Listed(database', "fish", last'.ret)
       /\ (last'.op = "Database.upsert_task" /\ last'.ok /\ last'.arg.id = None)
          => Listed(database', "task", last'.ret)
       /\ (last'.op = "Database.upsert_task" /\ last'.arg.id # None)
          => \A r \in database.tasks : r.id = last'.arg.id =>
                Listed(database', "task",
                       [TaskOf(r) EXCEPT
                          !.interval_minutes = last'.arg.interval_minutes,
                          !.last_run_at = last'.arg.last_run_at])]_vars

\* upsertTask has updated the seeded task 1 with another kind and aquarium:
\* the row has the interval and last run written, and its own kind and aquarium
C32_Witness ==
    /\ last.op = "Database.upsert_task" /\ last.ok
    /\ last.arg.id = 1 /\ last.arg.kind = "teste" /\ last.arg.aquarium_id = 2
    /\ \E r \in database.tasks :
          /\ r.id = 1 /\ r.kind = "alimentacao" /\ r.aquarium_id = 1
          /\ r.interval_minutes = last.arg.interval_minutes
          /\ fromisoformat(r.last_run_at) = last.arg.last_run_at

\* C33: refresh_aquarium_environment(aquarium, dT, dC) returns the aquarium
\* with current temperature + dT and cleanliness + dC held within [0, 100],
\* its other fields as passed; the row with the aquarium's id, if there is
\* one, holds these two values and its own name, target temperature and
\* last-cleaned time; no other row changes and none is added.
C33_RefreshEnvironment ==
    [][last'.op = "Database.refresh_aquarium_environment" =>
          LET a == last'.arg.aquarium
              n == last'.ret
              c == a.cleanliness + last'.arg.cleanliness_delta
          IN /\ n.current_temperature
                   = a.current_temperature + last'.arg.temperature_delta
             /\ n.cleanliness = (IF c < 0 THEN 0 ELSE IF c > 100 * Scale THEN 100 * Scale ELSE c)
             /\ n = [a EXCEPT !.current_temperature = n.current_temperature,
                              !.cleanliness = n.cleanliness]
             /\ Ids(database'.aquariums) = Ids(database.aquariums)
             /\ \A r \in database.aquariums :
                   IF r.id = a.id
                   THEN [r EXCEPT !.current_temperature = n.current_temperature,
                                  !.cleanliness = n.cleanliness]
                           \in database'.aquariums
                   ELSE r \in database'.aquariums
             /\ database'.fish = database.fish /\ database'.tasks = database.tasks
             /\ database'.seq = database.seq]_vars

\* refresh_aquarium_environment has run on the seeded row with an object of
\* another name and target and a delta that takes cleanliness above 100
C33_Witness ==
    /\ last.op = "Database.refresh_aquarium_environment"
    /\ last.arg.aquarium.id = 1 /\ last.arg.cleanliness_delta = 70000
    /\ last.ret.cleanliness = 100 * Scale
    /\ \E r \in database.aquariums :
          /\ r.id = 1 /\ r.name = "Aquario Principal"
          /\ r.target_temperature = SeedTemperature
          /\ r.cleanliness = 100 * Scale
          /\ r.current_temperature = 20000 + 2500

\* what one tick of all the minutes since the engine was built gives, from
\* what the engine had loaded then
C31_Whole ==
    tick_loop([aquariums |-> last.before.aquariums, fish |-> last.before.fish,
               database |-> database], now, 1)

\* C31: after two or more ticks in a row, the current temperature of every
\* aquarium, in the engine and in its row, equals the one a single tick of
\* the sum of the elapsed times gives.
C31_SplitTemperature ==
    calls >= 2 =>
       \A i \in DOMAIN aquariums :
          /\ aquariums[i].current_temperature
                = C31_Whole.aquariums[i].current_temperature
          /\ \A r \in database.aquariums : r.id = aquariums[i].id =>
                r.current_temperature = C31_Whole.aquariums[i].current_temperature

\* C31 as amended: after two or more ticks in a row, the current temperature
\* of every aquarium, in the engine and in its row, is within 0.01 degrees of
\* the one a single tick of the sum of the elapsed times gives.
C31_SplitTemperatureAmended ==
    calls >= 2 =>
       \A i \in DOMAIN aquariums :
          /\ Abs(aquariums[i].current_temperature
                   - C31_Whole.aquariums[i].current_temperature) <= 10
          /\ \A r \in database.aquariums : r.id = aquariums[i].id =>
                r.current_temperature = aquariums[i].current_temperature

\* two ticks of 10 minutes have run on an aquarium at 25 degrees with target
\* 16: it is between the two, about 2.96 degrees above the target
C31_Witness ==
    /\ phase = "ticking" /\ calls = 2 /\ now = 20 /\ last.minutes = 10
    /\ \E i \in DOMAIN aquariums :
          /\ aquariums[i].target_temperature = 16000
          /\ aquariums[i].current_temperature > 16000 + 2900
          /\ aquariums[i].current_temperature < 16000 + 3000

====
